---- MODULE Spec2Model ----
(***************************************************************************)
(* lazyrepo: the task graph (src/tasks/TaskGraph.js) and the capture of a  *)
(* task's outputs (cacheOutputs).                                          *)
(*                                                                         *)
(* The TaskGraph constructor expands the requested tasks into nodes        *)
(* (allTasks) and a sorted key list (sortedTaskKeys) by a depth-first      *)
(* visit; runAllTasks drives the nodes through tick, which starts ready    *)
(* tasks up to maxConcurrentTasks, and runTask, the worker whose           *)
(* completion writes the final status and re-enters tick.  A worker runs   *)
(* the task's command and then cacheOutputs, which replaces the task's     *)
(* cache output directory and output manifest by copies and records of the *)
(* files the command left.                                                 *)
(***************************************************************************)
EXTENDS Integers, Sequences, FiniteSets, TLC

VARIABLES
    env,                 \* process.env.__test__FORCE_PARALLEL, isTest and cpus().length
    config,              \* this.config: the project and the scripts' task configs
    requestedTasks,      \* the constructor's requestedTasks argument
    maxConcurrentTasks,  \* the module constant of TaskGraph.js, fixed per process
    allTasks,            \* this.allTasks: TaskKey -> ScheduledTask
    sortedTaskKeys,      \* this.sortedTaskKeys
    pc,                  \* "new" | "failed" | "constructed" | "running" | "exited";
                         \* "inherit" | "run" | "exited" for a `lazy inherit` process
    failMessage,         \* the keys logger.fail was given (path, then the repeated key)
    workers,             \* keys of the runTask calls awaiting runTaskIfNeeded
    started,             \* the keys passed to runTask, in call order
    lastTick,            \* the locals of the latest tick: runningTasks, readyTasks, starts
    resolved,            \* how many times tick called resolve(null)
    disk,                \* the project's files: root-relative path -> mtime (ms)
    runs,                \* the runs of the command line that have ended, oldest first
    proc,                \* the process of a `lazy inherit` call: its cwd, its options, the
                         \* calls it made and its exit code
    previous,            \* the cache directories and manifests the process found
    fs,                  \* the cache directories and output manifests on disk
    jobs                 \* TaskKey -> position of the key's runTaskIfNeeded call

vars == <<env, config, requestedTasks, maxConcurrentTasks, allTasks, sortedTaskKeys,
          pc, failMessage, workers, started, lastTick, resolved, disk, runs, proc, previous, fs, jobs>>

----------------------------------------------------------------------------
(* Bounds of the model *)

\* maxConcurrentTasks ranges over 1..MaxConcurrency
MaxConcurrency == 2
\* requestedTasks has at most MaxRequests entries
MaxRequests == 2
\* cpus().length ranges over 0..MaxCpus
MaxCpus == 4

----------------------------------------------------------------------------
(* Names.  JavaScript compares strings by code units; the names of the     *)
(* model are listed in that order, so a name's rank is its index.          *)

ScriptNames == <<"build", "test">>
RootDir == "<rootDir>"

\* path.join(workspaceRoot, pattern), for a pattern without . or .. segments
join(workspaceRoot, pattern) == workspaceRoot \o "/" \o pattern

DirNames == <<RootDir, join(RootDir, "a"), join(RootDir, "b")>>

RECURSIVE IndexOf(_, _, _)
IndexOf(seq, x, i) ==
    IF i > Len(seq) THEN 0
    ELSE IF seq[i] = x THEN i
    ELSE IndexOf(seq, x, i + 1)

Includes(seq, x) == \E i \in 1..Len(seq) : seq[i] = x

ToSet(seq) == {seq[i] : i \in 1..Len(seq)}

Min(a, b) == IF a < b THEN a ELSE b

Max(a, b) == IF a > b THEN a ELSE b

EmptyMap == [k \in {} |-> 0]

----------------------------------------------------------------------------
(* The module constant maxConcurrentTasks, computed when TaskGraph.js is   *)
(* loaded.                                                                 *)

\* the value of an environment variable that is not set
Undefined == "<undefined>"

\* JavaScript's truthiness of process.env[name]: undefined and the empty
\* string are falsy, every other string is truthy
truthy(value) == value \notin {Undefined, ""}

\* a capacity of one less than the number of cpus, whatever that is
maxConcurrentTasksUnclamped(e) ==
    IF truthy(e.FORCE_PARALLEL) THEN 2
    ELSE IF e.isTest THEN 1
    ELSE e.numCpus - 1

\* process.env.__test__FORCE_PARALLEL ? 2 : isTest ? 1 : Math.max(1, numCpus - 1)
maxConcurrentTasksOf(e) ==
    IF truthy(e.FORCE_PARALLEL) THEN 2
    ELSE IF e.isTest THEN 1
    ELSE Max(1, e.numCpus - 1)

----------------------------------------------------------------------------
(* The collaborators of the core: project and config                      *)

\* config.getTaskKey(dir, scriptName): "{scriptName}::{dir}"
getTaskKey(dir, scriptName) == <<scriptName, dir>>

\* String order of two task keys "{scriptName}::{dir}" (no script name of the
\* model is a prefix of another, so the script name decides first).
KeyLess(k1, k2) ==
    LET s1 == IndexOf(ScriptNames, k1[1], 1)
        s2 == IndexOf(ScriptNames, k2[1], 1)
        d1 == IndexOf(DirNames, k1[2], 1)
        d2 == IndexOf(DirNames, k2[2], 1)
    IN  s1 < s2 \/ (s1 = s2 /\ d1 < d2)

\* config.getTaskConfig(workspace, scriptName)
getTaskConfig(workspace, scriptName) == config.scripts[scriptName]

\* config.isTopLevelScript(scriptName)
isTopLevelScript(scriptName) == config.scripts[scriptName].execution = "top-level"

\* project.workspacesByDir.keys(), in the map's insertion order
allWorkspaceDirs ==
    [i \in 1..Len(config.project.workspaces) |-> config.project.workspaces[i].dir]

\* project.getWorkspaceByDir(dir)
getWorkspaceByDir(dir) ==
    IF dir = config.project.root.dir THEN config.project.root
    ELSE config.project.workspaces[IndexOf(allWorkspaceDirs, dir, 1)]

\* project.getWorkspaceByName(name)
getWorkspaceByName(name) ==
    LET ws == config.project.workspaces
    IN  ws[CHOOSE i \in 1..Len(ws) : ws[i].name = name]

----------------------------------------------------------------------------
(* filterPackageDirs                                                       *)

\* the relative filter paths of the model: two workspace directories, a
\* directory that is no workspace, and the glob of every child of the root
RelativePatterns == {"a", "b", "c", "*"}

\* path.isAbsolute(pattern): the other paths of the model start at the root
isAbsolute(pattern) == pattern \notin RelativePatterns

\* micromatch's test of one workspace directory against one glob: a glob
\* without wildcard matches the directory it spells, and * matches one segment
Matches(dir, glob) ==
    \/ glob = dir
    \/ glob = join(RootDir, "*") /\ \E name \in {"a", "b", "c"} : dir = join(RootDir, name)

\* a filter path used as it is written
globAsWritten(workspaceRoot, pattern) == pattern

\* isAbsolute(pattern) ? pattern : join(workspaceRoot, pattern)
globOf(workspaceRoot, pattern) ==
    IF isAbsolute(pattern) THEN pattern ELSE join(workspaceRoot, pattern)

\* uniq: the first occurrence of each element, in order
uniq(seq) ==
    LET keep == {i \in 1..Len(seq) : \A j \in 1..(i - 1) : seq[j] # seq[i]}
        F[i \in 0..Len(seq)] ==
            IF i = 0 THEN <<>>
            ELSE IF i \in keep THEN Append(F[i - 1], seq[i]) ELSE F[i - 1]
    IN  F[Len(seq)]

\* filterPaths.flatMap((pattern) => micromatch.match(allWorkspaceDirs, pattern))
RECURSIVE flatMapMatch(_, _)
flatMapMatch(filterPaths, i) ==
    IF i > Len(filterPaths) THEN <<>>
    ELSE SelectSeq(allWorkspaceDirs,
                   LAMBDA d : Matches(d, globOf(config.project.root.dir, filterPaths[i])))
            \o flatMapMatch(filterPaths, i + 1)

filterPackageDirs(filterPaths) ==
    IF Len(filterPaths) = 0 THEN allWorkspaceDirs
    ELSE uniq(flatMapMatch(filterPaths, 1))

----------------------------------------------------------------------------
(* The constructor.  A graph under construction is a record                *)
(*   [allTasks, sortedTaskKeys, fail]                                      *)
(* where fail is <<>> until logger.fail is called, and then the keys of    *)
(* its message.                                                            *)

NoKey == <<>>
NoFail == <<>>

NewGraph == [allTasks |-> EmptyMap, sortedTaskKeys |-> <<>>, fail |-> NoFail]

\* logger.fail: reports the message and does not return (the run is aborted)
loggerFail(g, message) == [g EXCEPT !.fail = message]

\* dependencies?.push(key)
pushDependency(g, owner, key) ==
    IF owner = NoKey THEN g
    ELSE [g EXCEPT !.allTasks[owner].dependencies = Append(@, key)]

\* the node visit creates for a key
newTask(key, taskConfig, requestedTask, workspace) ==
    [key |-> key,
     taskConfig |-> taskConfig,
     scriptName |-> requestedTask.scriptName,
     extraArgs |-> requestedTask.extraArgs,
     force |-> requestedTask.force,
     status |-> "pending",
     outputFiles |-> <<>>,
     dependencies |-> <<>>,
     workspace |-> workspace.dir]

\* a builder that gives every scope the empty filter
runsAfterFilterPathsAll(upstreamScriptConfig, workspace) == <<>>

\* the filter paths of a runsAfter entry
runsAfterFilterPaths(upstreamScriptConfig, workspace) ==
    IF upstreamScriptConfig.in = "self-and-dependencies"
    THEN <<workspace.dir>> \o
         [i \in 1..Len(workspace.localDependencyWorkspaceNames) |->
             getWorkspaceByName(workspace.localDependencyWorkspaceNames[i]).dir]
    ELSE IF upstreamScriptConfig.in = "self-only"
    THEN <<workspace.dir>>
    ELSE <<>>

\* a visit that looks for the key at the end of the path only
isCircularLastOnly(path, key) == Len(path) > 0 /\ path[Len(path)] = key

\* a visit that reports every key it reaches a second time (mark-based)
isCircularVisited(path, key) == TRUE

\* whether visit reports a cycle on reaching a key that is already a node
isCircular(path, key) == Includes(path, key)

\* a visit that puts the key in front of the sorted list
unshiftSorted(g, key) == [g EXCEPT !.sortedTaskKeys = <<key>> \o @]

\* a visit that appends the key twice
pushSortedTwice(g, key) == [g EXCEPT !.sortedTaskKeys = Append(Append(@, key), key)]

\* this.sortedTaskKeys.push(key)
pushSorted(g, key) == [g EXCEPT !.sortedTaskKeys = Append(@, key)]

\* a builder that follows the local dependencies in every execution mode
visitsLocalDependenciesAlways(taskConfig) == TRUE

\* taskConfig.execution === 'dependent'
visitsLocalDependencies(taskConfig) == taskConfig.execution = "dependent"

\* a builder that keys a top-level task on the first workspace
firstWorkspaceTaskKey(scriptName) == getTaskKey(allWorkspaceDirs[1], scriptName)

\* the key enqueueTask gives a top-level script
rootTaskKey(scriptName) == getTaskKey(config.project.root.dir, scriptName)

\* a builder that hands the upstream script the extra arguments of the
\* declaring task and no force
runsAfterRequestWithArgs(upstreamScriptName, requestedTask, filterPaths) ==
    [scriptName |-> upstreamScriptName,
     extraArgs |-> requestedTask.extraArgs,
     force |-> FALSE,
     filterPaths |-> filterPaths]

\* the requested task visit hands enqueueTask for a runsAfter entry
runsAfterRequest(upstreamScriptName, requestedTask, filterPaths) ==
    [scriptName |-> upstreamScriptName,
     extraArgs |-> <<>>,
     force |-> requestedTask.force,
     filterPaths |-> filterPaths]

\* a builder that visits the local dependencies without extra arguments
dependentRequestBare(requestedTask) == [requestedTask EXCEPT !.extraArgs = <<>>]

\* the requested task visit hands the visit of a local dependency
dependentRequest(requestedTask) == requestedTask

\* a visit that gives a node it reaches again the extra arguments and the
\* force flag of the request at hand
revisitApplies(g, key, requestedTask) ==
    [g EXCEPT !.allTasks[key].extraArgs = requestedTask.extraArgs,
              !.allTasks[key].force = requestedTask.force]

\* visit on a key that is already a node and not on the path: it returns
revisit(g, key, requestedTask) == g

RECURSIVE visit(_, _, _, _)
RECURSIVE visitRunsAfter(_, _, _, _, _, _)
RECURSIVE visitDependent(_, _, _, _, _, _)
RECURSIVE enqueueTask(_, _, _, _)
RECURSIVE enqueueDirs(_, _, _, _, _, _)

\* the loop over taskConfig.runsAfterEntries, from entry i
visitRunsAfter(g, path, key, requestedTask, workspace, i) ==
    LET entries == g.allTasks[key].taskConfig.runsAfterEntries
    IN  IF g.fail # NoFail \/ i > Len(entries) THEN g
        ELSE visitRunsAfter(
                enqueueTask(g, path,
                    runsAfterRequest(entries[i].scriptName, requestedTask,
                                     runsAfterFilterPaths(entries[i], workspace)),
                    key),
                path, key, requestedTask, workspace, i + 1)

\* the loop over workspace.localDependencyWorkspaceNames, from name i
visitDependent(g, path, key, requestedTask, workspace, i) ==
    LET names == workspace.localDependencyWorkspaceNames
    IN  IF g.fail # NoFail \/ i > Len(names) THEN g
        ELSE LET dependency == getWorkspaceByName(names[i])
                 depKey == getTaskKey(dependency.dir, requestedTask.scriptName)
             IN  IF requestedTask.scriptName \in dependency.scripts
                 THEN visitDependent(
                        visit(pushDependency(g, key, depKey), path,
                              dependentRequest(requestedTask), dependency),
                        path, key, requestedTask, workspace, i + 1)
                 ELSE visitDependent(g, path, key, requestedTask, workspace, i + 1)

visit(g, path, requestedTask, workspace) ==
    LET taskConfig == getTaskConfig(workspace, requestedTask.scriptName)
        key == getTaskKey(workspace.dir, requestedTask.scriptName)
    IN  IF g.fail # NoFail THEN g
        ELSE IF key \in DOMAIN g.allTasks
        THEN IF isCircular(path, key)
             THEN loggerFail(g, Append(path, key))
             ELSE revisit(g, key, requestedTask)
        ELSE LET path2 == Append(path, key)
                 g1 == [g EXCEPT !.allTasks =
                          (key :> newTask(key, taskConfig, requestedTask, workspace)) @@ @]
                 g2 == visitRunsAfter(g1, path2, key, requestedTask, workspace, 1)
                 g3 == IF visitsLocalDependencies(taskConfig)
                       THEN visitDependent(g2, path2, key, requestedTask, workspace, 1)
                       ELSE g2
             IN  IF g3.fail # NoFail THEN g3
                 ELSE pushSorted(g3, key)

\* the loop over dirs, from directory i
enqueueDirs(g, path, requestedTask, owner, dirs, i) ==
    IF g.fail # NoFail \/ i > Len(dirs) THEN g
    ELSE LET workspace == getWorkspaceByDir(dirs[i])
             key == getTaskKey(dirs[i], requestedTask.scriptName)
         IN  IF requestedTask.scriptName \in workspace.scripts
             THEN enqueueDirs(
                    visit(pushDependency(g, owner, key), path, requestedTask, workspace),
                    path, requestedTask, owner, dirs, i + 1)
             ELSE enqueueDirs(g, path, requestedTask, owner, dirs, i + 1)

enqueueTask(g, path, requestedTask, owner) ==
    IF g.fail # NoFail THEN g
    ELSE IF isTopLevelScript(requestedTask.scriptName)
    THEN LET key == rootTaskKey(requestedTask.scriptName)
         IN  visit(pushDependency(g, owner, key), path, requestedTask, config.project.root)
    ELSE enqueueDirs(g, path, requestedTask, owner,
                     filterPackageDirs(requestedTask.filterPaths), 1)

\* for (const requestedTask of requestedTasks) enqueueTask([], requestedTask)
RECURSIVE enqueueRequested(_, _, _)
enqueueRequested(g, requests, i) ==
    IF g.fail # NoFail \/ i > Len(requests) THEN g
    ELSE enqueueRequested(enqueueTask(g, <<>>, requests[i], NoKey), requests, i + 1)

\* new TaskGraph({ config, requestedTasks })
TaskGraph(requests) == enqueueRequested(NewGraph, requests, 1)

----------------------------------------------------------------------------
(* The scheduler.  The operators take the node map they read, since tick   *)
(* runs on the map runTask has just written.                               *)

\* status.startsWith('success')
startsWithSuccess(status) == status \in {"success:eager", "success:lazy"}

\* a readiness test that waits for the dependencies to end, however they end
isTaskReadyAnyEnd(tasks, key) ==
    /\ tasks[key].status = "pending"
    /\ \A i \in 1..Len(tasks[key].dependencies) :
          tasks[tasks[key].dependencies[i]].status \notin {"pending", "running"}

\* a readiness test that forgets the status of the task itself
isTaskReadyAnyStatus(tasks, key) ==
    \A i \in 1..Len(tasks[key].dependencies) :
        startsWithSuccess(tasks[tasks[key].dependencies[i]].status)

\* a readiness test that forgets the dependencies
isTaskReadyNoDeps(tasks, key) == tasks[key].status = "pending"

isTaskReady(tasks, key) ==
    /\ tasks[key].status = "pending"
    /\ \A i \in 1..Len(tasks[key].dependencies) :
          startsWithSuccess(tasks[tasks[key].dependencies[i]].status)

\* a filter that keeps every ready task
keepsReadyAll(tasks, ready, i) == TRUE

\* the filter that drops the later ready tasks of an unparallelizable script:
\* position i of ready is kept iff its task is parallel or no earlier position
\* holds an unparallelizable task of the same script (which added the script
\* to unparallelizableScripts)
keepsReady(tasks, ready, i) ==
    \/ tasks[ready[i]].taskConfig.parallel
    \/ ~ \E j \in 1..(i - 1) :
            /\ ~ tasks[ready[j]].taskConfig.parallel
            /\ tasks[ready[j]].scriptName = tasks[ready[i]].scriptName

RECURSIVE filterFrom(_, _, _)
filterFrom(tasks, ready, i) ==
    IF i > Len(ready) THEN <<>>
    ELSE (IF keepsReady(tasks, ready, i) THEN <<ready[i]>> ELSE <<>>)
            \o filterFrom(tasks, ready, i + 1)

\* a ready list left in the order of sortedTaskKeys
noSort(keys) == keys

\* Array.prototype.sort() without a comparator: ascending string order
sort(keys) == SortSeq(keys, KeyLess)

allReadyTaskKeys(tasks) ==
    LET ready == SelectSeq(sortedTaskKeys, LAMBDA key : isTaskReady(tasks, key))
    IN  sort(filterFrom(tasks, ready, 1))

allRunningTaskKeys(tasks) ==
    SelectSeq(sortedTaskKeys, LAMBDA key : tasks[key].status = "running")

allFailedTaskKeys(tasks) ==
    SelectSeq(sortedTaskKeys, LAMBDA key : tasks[key].status = "failure")

\* a tick that starts every ready task
numTasksToStartAll(runningTasks, readyTasks) == Len(readyTasks)

\* a tick that starts one task at a time
numTasksToStartOne(runningTasks, readyTasks) == Min(1, Len(readyTasks))

\* how many ready tasks tick starts
numTasksToStart(runningTasks, readyTasks) ==
    Min(maxConcurrentTasks - Len(runningTasks), Len(readyTasks))

\* a tick that returns when nothing is ready before it looks for the end of the run
tickWaitsFirst(tasks) ==
    LET runningTasks == allRunningTaskKeys(tasks)
        readyTasks == allReadyTaskKeys(tasks)
        idle == [tasks |-> tasks, runningTasks |-> runningTasks, readyTasks |-> readyTasks,
                 starts |-> <<>>, resolve |-> FALSE]
    IN  IF Len(readyTasks) = 0 THEN idle
        ELSE IF Len(runningTasks) >= maxConcurrentTasks THEN idle
        ELSE LET starts == SubSeq(readyTasks, 1, numTasksToStart(runningTasks, readyTasks))
             IN  [idle EXCEPT !.tasks = [key \in DOMAIN tasks |->
                                            IF Includes(starts, key)
                                            THEN [tasks[key] EXCEPT !.status = "running"]
                                            ELSE tasks[key]],
                              !.starts = starts]

\* a tick that starts nothing more once a task has failed
tickFailFast(tasks) ==
    LET runningTasks == allRunningTaskKeys(tasks)
        readyTasks == IF Len(allFailedTaskKeys(tasks)) > 0 THEN <<>> ELSE allReadyTaskKeys(tasks)
        idle == [tasks |-> tasks, runningTasks |-> runningTasks, readyTasks |-> readyTasks,
                 starts |-> <<>>, resolve |-> FALSE]
    IN  IF Len(runningTasks) = 0 /\ Len(readyTasks) = 0
        THEN [idle EXCEPT !.resolve = TRUE]
        ELSE IF Len(runningTasks) >= maxConcurrentTasks THEN idle
        ELSE IF Len(readyTasks) = 0 THEN idle
        ELSE LET starts == SubSeq(readyTasks, 1, numTasksToStart(runningTasks, readyTasks))
             IN  [idle EXCEPT !.tasks = [key \in DOMAIN tasks |->
                                            IF Includes(starts, key)
                                            THEN [tasks[key] EXCEPT !.status = "running"]
                                            ELSE tasks[key]],
                              !.starts = starts]

\* a tick that signals completion whenever nothing is ready
tickResolvesIdle(tasks) ==
    LET runningTasks == allRunningTaskKeys(tasks)
        readyTasks == allReadyTaskKeys(tasks)
        idle == [tasks |-> tasks, runningTasks |-> runningTasks, readyTasks |-> readyTasks,
                 starts |-> <<>>, resolve |-> FALSE]
    IN  IF Len(readyTasks) = 0
        THEN [idle EXCEPT !.resolve = TRUE]
        ELSE IF Len(runningTasks) >= maxConcurrentTasks THEN idle
        ELSE LET starts == SubSeq(readyTasks, 1, numTasksToStart(runningTasks, readyTasks))
             IN  [idle EXCEPT !.tasks = [key \in DOMAIN tasks |->
                                            IF Includes(starts, key)
                                            THEN [tasks[key] EXCEPT !.status = "running"]
                                            ELSE tasks[key]],
                              !.starts = starts]

\* tick, on the node map tasks: the map it leaves, its two snapshots, the keys
\* it passes to runTask (in call order) and whether it calls resolve
tick(tasks) ==
    LET runningTasks == allRunningTaskKeys(tasks)
        readyTasks == allReadyTaskKeys(tasks)
        idle == [tasks |-> tasks, runningTasks |-> runningTasks, readyTasks |-> readyTasks,
                 starts |-> <<>>, resolve |-> FALSE]
    IN  IF Len(runningTasks) = 0 /\ Len(readyTasks) = 0
        THEN [idle EXCEPT !.resolve = TRUE]
        ELSE IF Len(runningTasks) >= maxConcurrentTasks THEN idle
        ELSE IF Len(readyTasks) = 0 THEN idle
        ELSE LET starts == SubSeq(readyTasks, 1, numTasksToStart(runningTasks, readyTasks))
             IN  [tasks |-> [key \in DOMAIN tasks |->
                                IF Includes(starts, key)
                                THEN [tasks[key] EXCEPT !.status = "running"]
                                ELSE tasks[key]],
                  runningTasks |-> runningTasks,
                  readyTasks |-> readyTasks,
                  starts |-> starts,
                  resolve |-> FALSE]

\* what a tick leaves in lastTick
Locals(t) == [runningTasks |-> t.runningTasks, readyTasks |-> t.readyTasks, starts |-> t.starts]

NoTick == [runningTasks |-> <<>>, readyTasks |-> <<>>, starts |-> <<>>]

\* a worker that puts a failed task back in line
finalStatusRetry(didSucceed, didRunTask) ==
    IF didSucceed
    THEN IF didRunTask THEN "success:eager" ELSE "success:lazy"
    ELSE "pending"

\* a worker that reports every success as a run of the command
finalStatusEager(didSucceed, didRunTask) ==
    IF didSucceed THEN "success:eager" ELSE "failure"

\* the status runTask writes when runTaskIfNeeded returns
finalStatus(didSucceed, didRunTask) ==
    IF didSucceed
    THEN IF didRunTask THEN "success:eager" ELSE "success:lazy"
    ELSE "failure"

\* the workers awaiting runTaskIfNeeded, as a bag of keys
AddWorkers(w, starts) ==
    [key \in DOMAIN w |-> w[key] + Cardinality({i \in 1..Len(starts) : starts[i] = key})]

----------------------------------------------------------------------------
(* cacheOutputs (src/tasks/cacheOutputs, the first unnamed part).  The     *)
(* cache is a record [dirs, files]: dirs maps a cache output directory to  *)
(* the files under it (root-relative path -> mtime), files maps the path   *)
(* of an output manifest to its lines.                                     *)

NoCache == [dirs |-> EmptyMap, files |-> EmptyMap]

\* the process of a command that is not `lazy inherit`
NoProc == [cwd |-> RootDir, options |-> EmptyMap, spawned |-> <<>>, ran |-> <<>>, exitCode |-> <<>>]

\* the position of a runTaskIfNeeded call that has not begun
NewJob ==
    [phase |-> "start", ranCommand |-> FALSE, stream |-> <<>>, error |-> "",
     settles |-> TRUE, didSucceed |-> FALSE, didRunTask |-> FALSE]

\* the root-relative paths of the model that start with '..'
OutsideFiles == {"../outside/e.js"}

\* file.startsWith('..')
startsWithDotDot(file) == file \in OutsideFiles

\* the directory of a workspace relative to the project root
relative(dir) == CHOOSE name \in {"a", "b"} : join(RootDir, name) = dir

\* a cache output directory that does not name the workspace
getOutputPathOfScript(task) == join(join(RootDir, ".lazy/" \o task.scriptName), "output")

\* taskConfig.getOutputPath(): {workspaceDir}/.lazy/{scriptName}/output
getOutputPath(task) == join(join(task.workspace, ".lazy/" \o task.scriptName), "output")

\* taskConfig.getOutputManifestPath(): {workspaceDir}/.lazy/{scriptName}/output-manifest.tsv
getOutputManifestPath(task) ==
    join(join(task.workspace, ".lazy/" \o task.scriptName), "output-manifest.tsv")

\* the files a task's output globs name, root-relative: none; the two files
\* of the workspace's dist directory; or one of these and a file outside the
\* project root
outputCandidates(task) ==
    LET rel == relative(task.workspace)
    IN  CASE task.taskConfig.outputs = "dist" -> <<join(rel, "dist/x.js"), join(rel, "dist/y.js")>>
          [] task.taskConfig.outputs = "escape" -> <<join(rel, "dist/x.js"), "../outside/e.js">>
          [] OTHER -> <<>>

\* getOutputFiles(tasks, task): the files on disk that the output globs match
getOutputFiles(task) == SelectSeq(outputCandidates(task), LAMBDA file : file \in DOMAIN disk)

\* a removal that removes nothing
rimrafNothing(cache, path) == cache

\* a removal that removes directories only
rimrafDirsOnly(cache, path) ==
    [dirs |-> [d \in DOMAIN cache.dirs \ {path} |-> cache.dirs[d]], files |-> cache.files]

\* rimraf(path): the directory or the file at path is gone
rimraf(cache, path) ==
    [dirs |-> [d \in DOMAIN cache.dirs \ {path} |-> cache.dirs[d]],
     files |-> [f \in DOMAIN cache.files \ {path} |-> cache.files[f]]]

\* mkdirSync(outDir, { recursive: true })
mkdirSync(cache, outDir) ==
    IF outDir \in DOMAIN cache.dirs THEN cache
    ELSE [cache EXCEPT !.dirs = (outDir :> EmptyMap) @@ @]

\* copyFileWithMtime(absoluteFile, join(outDir, file), stat.mtime)
copyFileWithMtime(cache, outDir, file, mtime) ==
    [cache EXCEPT !.dirs[outDir] = (file :> mtime) @@ @]

\* file + '\t' + String(Math.round(stat.mtime.getTime())) + '\n'
manifestLine(file, mtime) == file \o "\t" \o ToString(mtime) \o "\n"

\* a loop that looks at every path before it copies the first file
RECURSIVE copyOutputsUnchecked(_, _, _, _, _)
copyOutputsUnchecked(c, outputFiles, outDir, failAt, i) ==
    IF c.error # "" \/ i > Len(outputFiles) THEN c
    ELSE IF failAt = i THEN [c EXCEPT !.error = "io"]
    ELSE copyOutputsUnchecked(
            [cache |-> copyFileWithMtime(c.cache, outDir, outputFiles[i], disk[outputFiles[i]]),
             stream |-> Append(c.stream, manifestLine(outputFiles[i], disk[outputFiles[i]])),
             error |-> ""],
            outputFiles, outDir, failAt, i + 1)

copyOutputsValidatesFirst(c, outputFiles, outDir, failAt, i) ==
    IF \E j \in i..Len(outputFiles) : startsWithDotDot(outputFiles[j])
    THEN [c EXCEPT !.error = "fatal"]
    ELSE copyOutputsUnchecked(c, outputFiles, outDir, failAt, i)

\* the loop over outputFiles, from file i, on c = [cache, stream, error]:
\* error becomes "fatal" at a file outside the root and "io" when statSync
\* or the copy throws, which it does at file failAt
RECURSIVE copyOutputs(_, _, _, _, _)
copyOutputs(c, outputFiles, outDir, failAt, i) ==
    IF c.error # "" \/ i > Len(outputFiles) THEN c
    ELSE IF startsWithDotDot(outputFiles[i]) THEN [c EXCEPT !.error = "fatal"]
    ELSE IF failAt = i THEN [c EXCEPT !.error = "io"]
    ELSE copyOutputs(
            [cache |-> copyFileWithMtime(c.cache, outDir, outputFiles[i], disk[outputFiles[i]]),
             stream |-> Append(c.stream, manifestLine(outputFiles[i], disk[outputFiles[i]])),
             error |-> ""],
            outputFiles, outDir, failAt, i + 1)

\* cacheOutputs up to its await or its throw: the cache it leaves, what it
\* stores in task.outputFiles, the lines written to the manifest stream, the
\* error thrown, and whether it now awaits manifest.close()
cacheOutputs(cache, task, failAt) ==
    LET outputFiles == getOutputFiles(task)
        outDir == getOutputPath(task)
        outManifestPath == getOutputManifestPath(task)
        removed == rimraf(rimraf(cache, outDir), outManifestPath)
    IN  IF Len(outputFiles) = 0
        THEN [cache |-> removed, outputFiles |-> <<>>, stream |-> <<>>, error |-> "",
              awaits |-> FALSE]
        ELSE LET c == copyOutputs([cache |-> mkdirSync(removed, outDir), stream |-> <<>>,
                                   error |-> ""],
                                  outputFiles, outDir, failAt, 1)
             IN  [cache |-> c.cache, outputFiles |-> outputFiles, stream |-> c.stream,
                  error |-> c.error, awaits |-> c.error = ""]

\* manifest.close(): the lines written to the stream are the file
closeManifest(cache, path, stream) == [cache EXCEPT !.files = (path :> stream) @@ @]

----------------------------------------------------------------------------
(* Inputs *)

\* the workspace of package @{name}, in directory {rootDir}/{name}
Workspace(name, scripts, deps) ==
    [dir |-> join(RootDir, name), name |-> "@" \o name, scripts |-> scripts,
     localDependencyWorkspaceNames |-> deps]

RootWorkspace ==
    [dir |-> RootDir, name |-> "@root", scripts |-> {}, localDependencyWorkspaceNames |-> <<>>]

\* the local dependencies of workspaces a and b: none, a on b, and each on
\* the other (circular)
LocalDependencies == {<<<<>>, <<>>>>, <<<<"@b">>, <<>>>>, <<<<"@b">>, <<"@a">>>>}

\* the projects of the model: two workspaces under the root; b may lack the
\* test script
Projects ==
    {[root |-> RootWorkspace,
      workspaces |-> <<Workspace("a", {"build", "test"}, deps[1]),
                       Workspace("b", scriptsB, deps[2])>>] :
        deps \in LocalDependencies, scriptsB \in {{"build", "test"}, {"build"}}}

RunsAfter(scriptName, in) == [scriptName |-> scriptName, in |-> in]

BuildConfigs ==
    [execution : {"independent", "dependent"},
     parallel : BOOLEAN,
     runsAfterEntries : {<<>>, <<RunsAfter("test", "all")>>}]

TestConfigs ==
    [execution : {"independent", "top-level"},
     parallel : BOOLEAN,
     runsAfterEntries : {<<>>} \cup
        {<<RunsAfter("build", in)>> : in \in {"all", "self-only", "self-and-dependencies"}}]

Configs ==
    {[project |-> p, scripts |-> [build |-> b, test |-> t]] :
        p \in Projects, b \in BuildConfigs, t \in TestConfigs}

Request(scriptName) ==
    [scriptName |-> scriptName, extraArgs |-> <<>>, force |-> FALSE, filterPaths |-> <<>>]

RequestLists ==
    UNION {[1..n -> {Request(ScriptNames[i]) : i \in 1..Len(ScriptNames)}] : n \in 0..MaxRequests}

----------------------------------------------------------------------------
(* The state machine *)

\* the state after the module is loaded, before the constructor is called
Start(configs, requestLists) ==
    /\ config \in configs
    /\ requestedTasks \in requestLists
    /\ maxConcurrentTasks \in 1..MaxConcurrency
    /\ env = [FORCE_PARALLEL |-> Undefined, isTest |-> FALSE, numCpus |-> maxConcurrentTasks + 1]
    /\ allTasks = EmptyMap
    /\ sortedTaskKeys = <<>>
    /\ pc = "new"
    /\ failMessage = NoFail
    /\ workers = EmptyMap
    /\ started = <<>>
    /\ lastTick = NoTick
    /\ resolved = 0
    /\ disk = EmptyMap
    /\ previous = NoCache
    /\ runs = <<>>
    /\ proc = NoProc
    /\ fs = NoCache
    /\ jobs = EmptyMap

Init == Start(Configs, RequestLists)

\* new TaskGraph({ config, requestedTasks })
Construct ==
    /\ pc = "new"
    /\ LET g == TaskGraph(requestedTasks)
       IN  /\ allTasks' = g.allTasks
           /\ sortedTaskKeys' = g.sortedTaskKeys
           /\ failMessage' = g.fail
           /\ pc' = IF g.fail # NoFail THEN "failed" ELSE "constructed"
           /\ workers' = [key \in DOMAIN g.allTasks |-> 0]
           /\ jobs' = [key \in DOMAIN g.allTasks |-> NewJob]
    /\ UNCHANGED <<env, config, requestedTasks, maxConcurrentTasks, started, lastTick, resolved,
                   disk, runs, proc, previous, fs>>

\* runAllTasks up to its await: the first tick
RunAllTasks ==
    /\ pc = "constructed"
    /\ LET t == tick(allTasks)
       IN  /\ allTasks' = t.tasks
           /\ workers' = AddWorkers(workers, t.starts)
           /\ started' = started \o t.starts
           /\ lastTick' = Locals(t)
           /\ resolved' = resolved + (IF t.resolve THEN 1 ELSE 0)
    /\ pc' = "running"
    /\ UNCHANGED <<env, config, requestedTasks, maxConcurrentTasks, sortedTaskKeys, failMessage,
                   disk, runs, proc, previous, fs, jobs>>

\* runTask(taskKey) from the return of runTaskIfNeeded: the final status, then tick
RunTaskDone(taskKey, didSucceed, didRunTask) ==
    /\ pc = "running"
    /\ taskKey \in DOMAIN workers
    /\ workers[taskKey] > 0
    /\ LET done == [allTasks EXCEPT ![taskKey].status = finalStatus(didSucceed, didRunTask)]
           t == tick(done)
       IN  /\ allTasks' = t.tasks
           /\ workers' = AddWorkers([workers EXCEPT ![taskKey] = @ - 1], t.starts)
           /\ started' = started \o t.starts
           /\ lastTick' = Locals(t)
           /\ resolved' = resolved + (IF t.resolve THEN 1 ELSE 0)
    /\ UNCHANGED <<env, config, requestedTasks, maxConcurrentTasks, sortedTaskKeys, pc, failMessage,
                   disk, runs, proc, previous>>

AllKeys == {getTaskKey(DirNames[d], ScriptNames[s]) : d \in 1..Len(DirNames), s \in 1..Len(ScriptNames)}

\* some worker returns, whatever runTaskIfNeeded did
WorkerReturns ==
    /\ \E taskKey \in AllKeys, didSucceed \in BOOLEAN, didRunTask \in BOOLEAN :
          RunTaskDone(taskKey, didSucceed, didRunTask)
    /\ UNCHANGED <<fs, jobs>>

Next ==
    \/ Construct
    \/ RunAllTasks
    \/ WorkerReturns

Spec == Init /\ [][Next]_vars

\* the configurations the liveness properties are checked on: workspace a
\* depends on workspace b, and test may run after build in every workspace
FairConfigs ==
    {c \in Configs :
        /\ c.project.workspaces[1].localDependencyWorkspaceNames = <<"@b">>
        /\ c.project.workspaces[2].localDependencyWorkspaceNames = <<>>
        /\ c.project.workspaces[2].scripts = {"build", "test"}
        /\ c.scripts.build.runsAfterEntries = <<>>
        /\ c.scripts.test.execution = "independent"
        /\ c.scripts.test.runsAfterEntries \in {<<>>, <<RunsAfter("build", "all")>>}}

FairInit == Init /\ config \in FairConfigs

\* runAllTasks is carried out on a constructed graph, and while workers are
\* awaited one of them returns
FairSpec ==
    /\ FairInit
    /\ [][Next]_vars
    /\ WF_vars(RunAllTasks)
    /\ WF_vars(WorkerReturns)

----------------------------------------------------------------------------
(* The worker: runTaskIfNeeded runs the task's command and, when the       *)
(* command exits with code 0, cacheOutputs.                                *)

\* a runTaskIfNeeded that lets an I/O error escape: its promise rejects
runTaskIfNeededRethrows(outcome) ==
    [settles |-> outcome # "io-error", didSucceed |-> outcome \in {"captured", "restored"},
     didRunTask |-> outcome # "restored"]

\* what runTaskIfNeeded resolves with: after it ran the command, success
\* when the outputs were captured, failure when the command exited with
\* another code than 0 or an I/O error occurred; after a cache hit, success
\* without having run the task
runTaskIfNeededResult(outcome) ==
    [settles |-> TRUE, didSucceed |-> outcome \in {"captured", "restored"},
     didRunTask |-> outcome # "restored"]

\* the job of a runTaskIfNeeded call that is about to settle
Returning(job, outcome) ==
    LET r == runTaskIfNeededResult(outcome)
    IN  [job EXCEPT !.phase = "return", !.settles = r.settles,
                    !.didSucceed = r.didSucceed, !.didRunTask = r.didRunTask]

\* the task's command runs and exits
RunCommand(taskKey, exitCode) ==
    /\ pc = "running"
    /\ taskKey \in DOMAIN jobs
    /\ workers[taskKey] > 0
    /\ jobs[taskKey].phase = "start"
    /\ jobs' = [jobs EXCEPT ![taskKey] =
                    IF exitCode = 0
                    THEN [@ EXCEPT !.phase = "capture", !.ranCommand = TRUE]
                    ELSE Returning([@ EXCEPT !.ranCommand = TRUE], "exit-nonzero")]
    /\ UNCHANGED <<env, config, requestedTasks, maxConcurrentTasks, allTasks, sortedTaskKeys,
                   pc, failMessage, workers, started, lastTick, resolved, disk, runs, proc, previous, fs>>

\* cacheOutputs(tasks, task) up to its await or its throw
CacheOutputs(taskKey, failAt) ==
    /\ pc = "running"
    /\ taskKey \in DOMAIN jobs
    /\ jobs[taskKey].phase = "capture"
    /\ failAt <= Len(getOutputFiles(allTasks[taskKey]))
    /\ LET r == cacheOutputs(fs, allTasks[taskKey], failAt)
       IN  /\ fs' = r.cache
           /\ allTasks' = [allTasks EXCEPT ![taskKey].outputFiles = r.outputFiles]
           /\ jobs' = [jobs EXCEPT ![taskKey] =
                  CASE r.error = "fatal" ->
                          [@ EXCEPT !.phase = "fatal", !.error = "fatal", !.stream = r.stream]
                    [] r.error = "io" ->
                          Returning([@ EXCEPT !.error = "io", !.stream = r.stream], "io-error")
                    [] r.error = "" /\ r.awaits ->
                          [@ EXCEPT !.phase = "closing", !.stream = r.stream]
                    [] OTHER -> Returning(@, "captured")]
           /\ pc' = IF r.error = "fatal" THEN "aborted" ELSE pc
    /\ UNCHANGED <<env, config, requestedTasks, maxConcurrentTasks, sortedTaskKeys,
                   failMessage, workers, started, lastTick, resolved, disk, runs, proc, previous>>

\* await manifest.close() returns (ok) or throws
CloseManifest(taskKey, ok) ==
    /\ pc = "running"
    /\ taskKey \in DOMAIN jobs
    /\ jobs[taskKey].phase = "closing"
    /\ fs' = IF ok
             THEN closeManifest(fs, getOutputManifestPath(allTasks[taskKey]), jobs[taskKey].stream)
             ELSE fs
    /\ jobs' = [jobs EXCEPT ![taskKey] =
                    IF ok THEN Returning(@, "captured")
                    ELSE Returning([@ EXCEPT !.error = "io"], "io-error")]
    /\ UNCHANGED <<env, config, requestedTasks, maxConcurrentTasks, allTasks, sortedTaskKeys,
                   pc, failMessage, workers, started, lastTick, resolved, disk, runs, proc, previous>>

\* runTask(taskKey) when runTaskIfNeeded settles: on a result it writes the
\* final status and ticks; on a rejection the await throws and runTask ends
\* there
RunTaskSettles(taskKey) ==
    /\ pc = "running"
    /\ taskKey \in DOMAIN jobs
    /\ jobs[taskKey].phase = "return"
    /\ IF jobs[taskKey].settles
       THEN RunTaskDone(taskKey, jobs[taskKey].didSucceed, jobs[taskKey].didRunTask)
       ELSE UNCHANGED <<env, config, requestedTasks, maxConcurrentTasks, allTasks,
                        sortedTaskKeys, pc, failMessage, workers, started, lastTick,
                        resolved, disk, runs, proc, previous>>
    /\ jobs' = [jobs EXCEPT ![taskKey].phase = IF jobs[taskKey].settles THEN "done" ELSE "rejected"]
    /\ UNCHANGED fs

Commands == \E taskKey \in AllKeys, exitCode \in {0, 1} : RunCommand(taskKey, exitCode)

Captures == \E taskKey \in AllKeys, failAt \in 0..2 : CacheOutputs(taskKey, failAt)

Closes == \E taskKey \in AllKeys, ok \in BOOLEAN : CloseManifest(taskKey, ok)

Settles == \E taskKey \in AllKeys : RunTaskSettles(taskKey)

PipelineNext ==
    \/ Construct
    \/ RunAllTasks
    \/ Commands
    \/ Captures
    \/ Closes
    \/ Settles

\* the output globs of build: none, the workspace's dist directory, or a
\* path that leaves the project root
PipelineConfigs ==
    {[project |-> [root |-> RootWorkspace,
                   workspaces |-> <<Workspace("a", {"build", "test"}, <<"@b">>),
                                    Workspace("b", {"build", "test"}, <<>>)>>],
      scripts |-> [build |-> [execution |-> execution, parallel |-> TRUE,
                              runsAfterEntries |-> <<>>, outputs |-> outputs],
                   test |-> [execution |-> "independent", parallel |-> TRUE,
                             runsAfterEntries |-> <<>>, outputs |-> testOutputs]]] :
        execution \in {"independent", "dependent"}, outputs \in {"none", "dist", "escape"},
        testOutputs \in {"none", "dist"}}

PipelineRequestLists == {<<Request("build")>>, <<Request("build"), Request("test")>>}

\* the project's files: the dist files of both workspaces (one of them may
\* be missing) and a file outside the root
AllFiles ==
    ("a/dist/x.js" :> 1001) @@ ("a/dist/y.js" :> 1002) @@ ("b/dist/x.js" :> 2001)
        @@ ("b/dist/y.js" :> 2002) @@ ("../outside/e.js" :> 3001)

Disks == {AllFiles, [file \in DOMAIN AllFiles \ {"b/dist/y.js"} |-> AllFiles[file]]}

\* the cache an earlier run of build in workspace a or b left: x.js with an
\* older mtime and a file that is no longer an output
StaleCacheOf(name) ==
    LET task == [workspace |-> join(RootDir, name), scriptName |-> "build"]
        files == (join(name, "dist/x.js") :> 900) @@ (join(name, "dist/old.js") :> 900)
    IN  [dirs |-> getOutputPath(task) :> files,
         files |-> getOutputManifestPath(task) :>
                      <<manifestLine(join(name, "dist/x.js"), 900),
                        manifestLine(join(name, "dist/old.js"), 900)>>]

StaleCache ==
    [dirs |-> StaleCacheOf("a").dirs @@ StaleCacheOf("b").dirs,
     files |-> StaleCacheOf("a").files @@ StaleCacheOf("b").files]

PipelineStart(configs, requestLists) ==
    /\ config \in configs
    /\ requestedTasks \in requestLists
    /\ maxConcurrentTasks \in 1..MaxConcurrency
    /\ env = [FORCE_PARALLEL |-> Undefined, isTest |-> FALSE, numCpus |-> maxConcurrentTasks + 1]
    /\ allTasks = EmptyMap
    /\ sortedTaskKeys = <<>>
    /\ pc = "new"
    /\ failMessage = NoFail
    /\ workers = EmptyMap
    /\ started = <<>>
    /\ lastTick = NoTick
    /\ resolved = 0
    /\ disk \in Disks
    /\ previous \in {NoCache, StaleCache}
    /\ runs = <<>>
    /\ proc = NoProc
    /\ fs = previous
    /\ jobs = EmptyMap

PipelineInit == PipelineStart(PipelineConfigs, PipelineRequestLists)

PipelineSpec == PipelineInit /\ [][PipelineNext]_vars

\* the configurations in which build captures the dist directory and test
\* has no outputs
PipelineFairConfigs ==
    {c \in PipelineConfigs : c.scripts.build.outputs = "dist" /\ c.scripts.test.outputs = "none"}

PipelineFairInit ==
    /\ PipelineStart(PipelineFairConfigs, PipelineRequestLists)
    /\ disk = AllFiles
    /\ previous = StaleCache

\* a step of some started worker
WorkerSteps == Commands \/ Captures \/ Closes \/ Settles

\* runAllTasks is carried out on a constructed graph, and while a started
\* worker can take a step one of them does
PipelineFairSpec ==
    /\ PipelineFairInit
    /\ [][PipelineNext]_vars
    /\ WF_vars(RunAllTasks)
    /\ WF_vars(WorkerSteps)

----------------------------------------------------------------------------
(* The cache decision of runTaskIfNeeded: the input manifest, the command, *)
(* the restore of the outputs, and the exit of the process, over several   *)
(* runs of the command line on the same directory                          *)

\* how many times the command line is run
MaxRuns == 2

\* the mtimes of the model
Mtimes == 0..(10 * MaxRuns + 9)

\* the root-relative paths of the model, in ascending string order
SortedPaths ==
    <<"a/dist/x.js", "a/dist/y.js", "a/index.js", "b/dist/x.js", "b/dist/y.js", "b/index.js">>

\* taskConfig.getManifestPath(): {workspaceDir}/.lazy/{scriptName}/manifest.tsv
getManifestPath(task) ==
    join(join(task.workspace, ".lazy/" \o task.scriptName), "manifest.tsv")

\* a task key as the manifest prints it: {scriptName}::{relDir}
keyString(key) == key[1] \o "::" \o relative(key[2])

\* the sha256 of a file's bytes: a file's content is identified by its path
\* and its mtime, two versions of a file never carry the same mtime
sha256Of(file, mtime) == "sha256(" \o file \o "@" \o ToString(mtime) \o ")"

\* file\t{relPath}\t{sha256}\t{mtimeMillis}\n
fileLine(file, mtime) ==
    "file\t" \o file \o "\t" \o sha256Of(file, mtime) \o "\t" \o ToString(mtime) \o "\n"

\* upstream\t{depKey}\t{depFingerprint}\n
upstreamLine(depKey, depFingerprint) ==
    "upstream\t" \o keyString(depKey) \o "\t" \o depFingerprint \o "\n"

\* the manifest's lines as the bytes of the file
RECURSIVE serialize(_, _)
serialize(lines, i) == IF i > Len(lines) THEN "" ELSE lines[i] \o serialize(lines, i + 1)

\* the fingerprint of a manifest: the sha256 of its serialized bytes
fingerprint(lines) == "sha256(" \o serialize(lines, 1) \o ")"

\* the files the task's include patterns match less those its exclude
\* patterns match: the sources of the workspace, not its dist directory
inputFiles(task, d) == {join(relative(task.workspace), "index.js")} \cap DOMAIN d

\* an input manifest that takes the output files of every dependency
usesOutputAlways(task, depKey) == TRUE

\* whether the task's manifest takes the output files of a dependency: for
\* a task of another script the usesOutput of the runsAfter entry that names
\* the script, for the task of a local dependency usesOutputFromDependencies
usesOutput(task, depKey) ==
    IF depKey[1] # task.scriptName
    THEN \E i \in 1..Len(task.taskConfig.runsAfterEntries) :
            /\ task.taskConfig.runsAfterEntries[i].scriptName = depKey[1]
            /\ task.taskConfig.runsAfterEntries[i].usesOutput
    ELSE task.taskConfig.usesOutputFromDependencies

\* whether the manifest carries an upstream line for a dependency: for the
\* task of a local dependency always, otherwise when its output is used
hasUpstreamLine(task, depKey) == depKey[1] = task.scriptName \/ usesOutput(task, depKey)

\* the fingerprint of a dependency's persisted manifest
upstreamFingerprint(tasks, cache, depKey) ==
    LET path == getManifestPath(tasks[depKey])
    IN  IF path \in DOMAIN cache.files THEN fingerprint(cache.files[path]) ELSE "none"

\* computeManifest: the sorted lines of the task's input manifest, over the
\* files d and the persisted state cache
computeManifest(tasks, task, d, cache) ==
    LET deps == sort(task.dependencies)
        upstreams == SelectSeq(deps, LAMBDA depKey : hasUpstreamLine(task, depKey))
        extraFiles == UNION {ToSet(tasks[deps[i]].outputFiles) \cap DOMAIN d :
                                i \in {j \in 1..Len(deps) : usesOutput(task, deps[j])}}
        files == SelectSeq(SortedPaths, LAMBDA file : file \in inputFiles(task, d) \cup extraFiles)
    IN  [i \in 1..Len(upstreams) |->
            upstreamLine(upstreams[i], upstreamFingerprint(tasks, cache, upstreams[i]))]
        \o [i \in 1..Len(files) |-> fileLine(files[i], d[files[i]])]

\* a decision that does not look at the force flag
isCacheMissUnforced(force, cache, path, manifest) ==
    path \notin DOMAIN cache.files \/ fingerprint(cache.files[path]) # fingerprint(manifest)

\* the cache decision: force is set, or no manifest was persisted, or the
\* persisted fingerprint differs from the new one
isCacheMiss(force, cache, path, manifest) ==
    \/ force
    \/ path \notin DOMAIN cache.files
    \/ fingerprint(cache.files[path]) # fingerprint(manifest)

\* the new manifest is persisted at the task's manifest path
persistManifest(cache, path, manifest) == [cache EXCEPT !.files = (path :> manifest) @@ @]

\* a failure that leaves the manifest where it is
keepManifest(cache, path) == cache

\* after a command failure the task has no persisted manifest
unpersistManifest(cache, path) == rimraf(cache, path)

\* the mtime of a file the command of a task writes in run n
writtenMtime(task, n) == 10 * n + (IF relative(task.workspace) = "a" THEN 1 ELSE 2)

\* the files of the project after the task's command: a task with outputs
\* writes x.js into the dist directory of its workspace
commandWrites(d, task, n) ==
    IF task.taskConfig.outputs = "none" THEN d
    ELSE LET file == join(relative(task.workspace), "dist/x.js")
         IN  (file :> writtenMtime(task, n)) @@ [f \in DOMAIN d \ {file} |-> d[f]]

\* the file and the mtime of a line of an output manifest
parseOutputLine(line) ==
    CHOOSE p \in ToSet(SortedPaths) \X Mtimes : manifestLine(p[1], p[2]) = line

\* the stored output manifest of a task: file -> mtime
storedOutputs(cache, task) ==
    LET path == getOutputManifestPath(task)
        lines == IF path \in DOMAIN cache.files THEN cache.files[path] ELSE <<>>
        parsed == [i \in 1..Len(lines) |-> parseOutputLine(lines[i])]
    IN  [file \in {parsed[i][1] : i \in 1..Len(parsed)} |->
            parsed[CHOOSE i \in 1..Len(parsed) : parsed[i][1] = file][2]]

\* the files of d that the task's output globs match
matchingOutputs(d, task) == ToSet(outputCandidates(task)) \cap DOMAIN d

\* the restore over the files d, given the files it deletes as stale: a
\* listed file that is absent is copied from the cache and given the mtime
\* of the manifest, one with another mtime is overwritten from the cache,
\* one with the mtime of the manifest is left
restoreWith(d, cache, task, stale) ==
    LET stored == storedOutputs(cache, task)
        outDir == getOutputPath(task)
    IN  [file \in (DOMAIN d \ stale) \cup DOMAIN stored |->
            IF file \notin DOMAIN stored THEN d[file]
            ELSE IF file \notin DOMAIN d THEN stored[file]
            ELSE IF d[file] # stored[file] THEN cache.dirs[outDir][file]
            ELSE d[file]]

\* a restore that deletes nothing
restoreKeepsStale(d, cache, task) == restoreWith(d, cache, task, {})

\* the restore of a task's outputs on a cache hit: the present files that
\* match the output globs and are not in the stored manifest are deleted
restoreOutputs(d, cache, task) ==
    restoreWith(d, cache, task, matchingOutputs(d, task) \ DOMAIN storedOutputs(cache, task))

\* a process that exits with 0 whatever the tasks' statuses
exitCodeZero(tasks) == 0

\* the exit code of the process when runAllTasks has returned
exitCodeOf(tasks) == IF Len(allFailedTaskKeys(tasks)) > 0 THEN 1 ELSE 0

\* runTaskIfNeeded from its start to the cache decision: the input manifest
\* is computed, compared with the persisted one, and persisted
ComputeManifest(taskKey) ==
    /\ pc = "running"
    /\ taskKey \in DOMAIN jobs
    /\ workers[taskKey] > 0
    /\ jobs[taskKey].phase = "start"
    /\ LET task == allTasks[taskKey]
           path == getManifestPath(task)
           manifest == computeManifest(allTasks, task, disk, fs)
           miss == isCacheMiss(task.force, fs, path, manifest)
       IN  /\ fs' = persistManifest(fs, path, manifest)
           /\ jobs' = [jobs EXCEPT ![taskKey] =
                          [@ EXCEPT !.phase = IF miss THEN "command" ELSE "restore"]
                              @@ [manifest |-> manifest, miss |-> miss]]
    /\ UNCHANGED <<env, config, requestedTasks, maxConcurrentTasks, allTasks, sortedTaskKeys,
                   pc, failMessage, workers, started, lastTick, resolved, disk, runs, proc, previous>>

\* on a cache miss the task's command runs, writes its files and exits; on
\* a code other than 0 the manifest does not stay persisted
CacheCommand(taskKey, exitCode) ==
    /\ pc = "running"
    /\ taskKey \in DOMAIN jobs
    /\ jobs[taskKey].phase = "command"
    /\ disk' = commandWrites(disk, allTasks[taskKey], Len(runs) + 1)
    /\ fs' = IF exitCode = 0 THEN fs
             ELSE unpersistManifest(fs, getManifestPath(allTasks[taskKey]))
    /\ jobs' = [jobs EXCEPT ![taskKey] =
                    (IF exitCode = 0
                     THEN [@ EXCEPT !.phase = "capture", !.ranCommand = TRUE]
                     ELSE Returning([@ EXCEPT !.ranCommand = TRUE], "exit-nonzero"))
                        @@ [exitCode |-> exitCode]]
    /\ UNCHANGED <<env, config, requestedTasks, maxConcurrentTasks, allTasks, sortedTaskKeys,
                   pc, failMessage, workers, started, lastTick, resolved, runs, proc, previous>>

\* on a cache hit the outputs are restored and the command is not run
RestoreOutputs(taskKey) ==
    /\ pc = "running"
    /\ taskKey \in DOMAIN jobs
    /\ jobs[taskKey].phase = "restore"
    /\ disk' = restoreOutputs(disk, fs, allTasks[taskKey])
    /\ allTasks' = [allTasks EXCEPT ![taskKey].outputFiles =
                        SelectSeq(SortedPaths,
                                  LAMBDA file : file \in DOMAIN storedOutputs(fs, allTasks[taskKey]))]
    /\ jobs' = [jobs EXCEPT ![taskKey] = Returning(@, "restored")]
    /\ UNCHANGED <<env, config, requestedTasks, maxConcurrentTasks, sortedTaskKeys,
                   pc, failMessage, workers, started, lastTick, resolved, runs, proc, previous, fs>>

\* what is kept of a run that has ended
RunRecord ==
    [exitCode |-> exitCodeOf(allTasks),
     status |-> [key \in DOMAIN allTasks |-> allTasks[key].status],
     ranCommand |-> [key \in DOMAIN allTasks |-> jobs[key].ranCommand],
     manifest |-> [key \in {k \in DOMAIN allTasks : "manifest" \in DOMAIN jobs[k]} |->
                     jobs[key].manifest],
     outputFiles |-> [key \in DOMAIN allTasks |-> allTasks[key].outputFiles],
     disk |-> disk,
     edit |-> "none"]

\* runAllTasks has returned: the process exits
Exit ==
    /\ pc = "running"
    /\ resolved > 0
    /\ pc' = "exited"
    /\ runs' = Append(runs, RunRecord)
    /\ UNCHANGED <<env, config, requestedTasks, maxConcurrentTasks, allTasks, sortedTaskKeys,
                   failMessage, workers, started, lastTick, resolved, disk, proc, previous, fs, jobs>>

\* what the user does to the project's files between two runs
Edits == {"none", "input", "delete-outputs", "touch-outputs", "stale-outputs"}

\* the files after an edit: the source of b is changed; x.js of both dist
\* directories is deleted; it is rewritten; y.js is added to both
edited(d, edit) ==
    LET xs == {"a/dist/x.js", "b/dist/x.js"}
        ys == {"a/dist/y.js", "b/dist/y.js"}
    IN  CASE edit = "input" -> [d EXCEPT !["b/index.js"] = 5]
          [] edit = "delete-outputs" -> [file \in DOMAIN d \ xs |-> d[file]]
          [] edit = "touch-outputs" -> [file \in DOMAIN d |-> IF file \in xs THEN 7 ELSE d[file]]
          [] edit = "stale-outputs" -> [file \in DOMAIN d \cup ys |->
                                            IF file \in ys THEN 8 ELSE d[file]]
          [] OTHER -> d

\* the command line is run again on the same directory, with the same
\* request but for its force flag, after an edit of the user
Invoke(edit, force) ==
    /\ pc = "exited"
    /\ Len(runs) < MaxRuns
    /\ pc' = "new"
    /\ requestedTasks' = [i \in 1..Len(requestedTasks) |->
                             [requestedTasks[i] EXCEPT !.force = force]]
    /\ allTasks' = EmptyMap
    /\ sortedTaskKeys' = <<>>
    /\ failMessage' = NoFail
    /\ workers' = EmptyMap
    /\ started' = <<>>
    /\ lastTick' = NoTick
    /\ resolved' = 0
    /\ jobs' = EmptyMap
    /\ disk' = edited(disk, edit)
    /\ previous' = fs
    /\ runs' = [runs EXCEPT ![Len(runs)].edit = edit]
    /\ UNCHANGED <<env, config, maxConcurrentTasks, proc, fs>>

Manifests == \E taskKey \in AllKeys : ComputeManifest(taskKey)

CacheCommands == \E taskKey \in AllKeys, exitCode \in {0, 1} : CacheCommand(taskKey, exitCode)

Restores == \E taskKey \in AllKeys : RestoreOutputs(taskKey)

\* cacheOutputs and manifest.close() without I/O errors
CacheCaptures == \E taskKey \in AllKeys : CacheOutputs(taskKey, 0)

CacheCloses == \E taskKey \in AllKeys : CloseManifest(taskKey, TRUE)

Invokes == \E edit \in Edits, force \in BOOLEAN : Invoke(edit, force)

CacheNext ==
    \/ Construct
    \/ RunAllTasks
    \/ Manifests
    \/ CacheCommands
    \/ CacheCaptures
    \/ CacheCloses
    \/ Restores
    \/ Settles
    \/ Exit
    \/ Invokes

\* b is a local dependency of a; build writes and caches the dist directory,
\* in dependent mode with or without the outputs of the dependencies as
\* inputs; test runs after the build of its workspace, with or without its
\* outputs as inputs
CacheConfigs ==
    {[project |-> [root |-> RootWorkspace,
                   workspaces |-> <<Workspace("a", {"build", "test"}, <<"@b">>),
                                    Workspace("b", {"build", "test"}, <<>>)>>],
      scripts |-> [build |-> [execution |-> execution, parallel |-> TRUE,
                              runsAfterEntries |-> <<>>, outputs |-> "dist",
                              usesOutputFromDependencies |-> fromDependencies],
                   test |-> [execution |-> "independent", parallel |-> TRUE,
                             runsAfterEntries |->
                                <<[scriptName |-> "build", in |-> "self-only",
                                   usesOutput |-> fromBuild]>>,
                             outputs |-> "none",
                             usesOutputFromDependencies |-> FALSE]]] :
        execution \in {"independent", "dependent"}, fromDependencies \in BOOLEAN,
        fromBuild \in BOOLEAN}

CacheRequestLists ==
    {<<[Request(scriptName) EXCEPT !.force = force]>> :
        scriptName \in {"build", "test"}, force \in BOOLEAN}

\* a checkout with the sources of both workspaces and nothing built or cached
SourceFiles == ("a/index.js" :> 1) @@ ("b/index.js" :> 2)

CacheInit ==
    /\ config \in CacheConfigs
    /\ requestedTasks \in CacheRequestLists
    /\ maxConcurrentTasks \in 1..MaxConcurrency
    /\ env = [FORCE_PARALLEL |-> Undefined, isTest |-> FALSE, numCpus |-> maxConcurrentTasks + 1]
    /\ allTasks = EmptyMap
    /\ sortedTaskKeys = <<>>
    /\ pc = "new"
    /\ failMessage = NoFail
    /\ workers = EmptyMap
    /\ started = <<>>
    /\ lastTick = NoTick
    /\ resolved = 0
    /\ disk = SourceFiles
    /\ runs = <<>>
    /\ proc = NoProc
    /\ previous = NoCache
    /\ fs = NoCache
    /\ jobs = EmptyMap

CacheSpec == CacheInit /\ [][CacheNext]_vars

----------------------------------------------------------------------------
(* The run from the load of the module, over the environments *)

Envs ==
    [FORCE_PARALLEL : {Undefined, "", "1", "false"},
     isTest : BOOLEAN,
     numCpus : 0..MaxCpus]

\* workspace a depends on b, both scripts independent and parallel, test runs
\* after build in the own workspace
EnvConfig ==
    [project |-> [root |-> RootWorkspace,
                  workspaces |-> <<Workspace("a", {"build", "test"}, <<"@b">>),
                                   Workspace("b", {"build", "test"}, <<>>)>>],
     scripts |-> [build |-> [execution |-> "independent", parallel |-> TRUE,
                             runsAfterEntries |-> <<>>],
                  test |-> [execution |-> "independent", parallel |-> TRUE,
                            runsAfterEntries |-> <<RunsAfter("build", "self-only")>>]]]

EnvInit ==
    /\ env \in Envs
    /\ config = EnvConfig
    /\ requestedTasks = <<Request("test")>>
    /\ maxConcurrentTasks = 0
    /\ allTasks = EmptyMap
    /\ sortedTaskKeys = <<>>
    /\ pc = "load"
    /\ failMessage = NoFail
    /\ workers = EmptyMap
    /\ started = <<>>
    /\ lastTick = NoTick
    /\ resolved = 0
    /\ disk = EmptyMap
    /\ previous = NoCache
    /\ runs = <<>>
    /\ proc = NoProc
    /\ fs = NoCache
    /\ jobs = EmptyMap

\* the module body of TaskGraph.js
LoadModule ==
    /\ pc = "load"
    /\ maxConcurrentTasks' = maxConcurrentTasksOf(env)
    /\ pc' = "new"
    /\ UNCHANGED <<env, config, requestedTasks, allTasks, sortedTaskKeys, failMessage,
                   workers, started, lastTick, resolved, disk, runs, proc, previous, fs, jobs>>

EnvNext ==
    \/ LoadModule
    \/ Next

EnvSpec == EnvInit /\ [][EnvNext]_vars

----------------------------------------------------------------------------
(* lazy inherit (src/commands/inherit.js): the command a package.json      *)
(* script calls to run the baseCommand of its task.  A child's exit status *)
(* is <<code>>, or <<>> for null.                                          *)

\* a test that takes every non-empty value of the variable for 'true'
isLazyWorkflowSet(value) == truthy(value)

\* process.env.__LAZY_WORKFLOW__ === 'true'
isLazyWorkflow(value) == value = "true"

\* options['--'] ?? []
argsAfterDashes(options) == IF "--" \in DOMAIN options THEN options["--"] ELSE <<>>

\* result.status ?? 1
statusOrOne(status) == IF status = <<>> THEN 1 ELSE status[1]

\* { ...options, filter: [process.cwd()] }
withFilter(options, cwd) == ("filter" :> <<cwd>>) @@ options

\* the workspace inherit looks the task config up for
workspaceOfCwd(cwd) ==
    IF cwd = config.project.root.dir THEN config.project.root
    ELSE LET ws == config.project.workspaces
         IN  ws[CHOOSE i \in 1..Len(ws) : ws[i].dir = cwd]

\* inherit(options), whole: it fails without npm_lifecycle_event or without
\* a baseCommand; in a lazy workflow it spawns the baseCommand, which exits
\* with status, and exits with it; otherwise it calls run
Inherit(status) ==
    /\ pc = "inherit"
    /\ LET scriptName == env["npm_lifecycle_event"]
       IN  IF ~ truthy(scriptName)
           THEN /\ failMessage' = <<"No npm_lifecycle_event found">>
                /\ proc' = [proc EXCEPT !.exitCode = <<1>>]
                /\ pc' = "exited"
           ELSE LET task == getTaskConfig(workspaceOfCwd(proc.cwd), scriptName)
                IN  IF ~ truthy(task.baseCommand)
                    THEN /\ failMessage' = <<"No baseCommand found for task", scriptName>>
                         /\ proc' = [proc EXCEPT !.exitCode = <<1>>]
                         /\ pc' = "exited"
                    ELSE IF isLazyWorkflow(env["__LAZY_WORKFLOW__"])
                    THEN /\ proc' = [proc EXCEPT
                                !.spawned = Append(@, [command |-> task.baseCommand,
                                                       args |-> argsAfterDashes(proc.options),
                                                       stdio |-> "inherit", shell |-> TRUE,
                                                       status |-> status]),
                                !.exitCode = <<statusOrOne(status)>>]
                         /\ pc' = "exited"
                         /\ UNCHANGED failMessage
                    ELSE /\ proc' = [proc EXCEPT
                                !.ran = Append(@, [taskName |-> scriptName,
                                                   options |-> withFilter(proc.options, proc.cwd)])]
                         /\ pc' = "run"
                         /\ UNCHANGED failMessage
    /\ UNCHANGED <<env, config, requestedTasks, maxConcurrentTasks, allTasks, sortedTaskKeys,
                   workers, started, lastTick, resolved, disk, runs, previous, fs, jobs>>

\* the exit statuses of the child: null (killed by a signal) or a code
ChildStatuses == {<<>>, <<0>>, <<1>>, <<2>>}

InheritEnvs ==
    {[FORCE_PARALLEL |-> Undefined, isTest |-> FALSE, numCpus |-> 2]
        @@ ("npm_lifecycle_event" :> event) @@ ("__LAZY_WORKFLOW__" :> workflow) :
        event \in {Undefined, "build", "test"}, workflow \in {Undefined, "", "true", "false", "1"}}

\* the tasks with and without a baseCommand
InheritConfigs ==
    {[project |-> EnvConfig.project,
      scripts |-> [build |-> [execution |-> "independent", parallel |-> TRUE,
                              runsAfterEntries |-> <<>>, baseCommand |-> build],
                   test |-> [execution |-> "independent", parallel |-> TRUE,
                             runsAfterEntries |-> <<>>, baseCommand |-> test]]] :
        build \in {Undefined, "", "tsc"}, test \in {Undefined, "jest"}}

\* the parsed command line: arguments after --, a --filter, --force
InheritOptions ==
    {dashes @@ filter @@ ("force" :> force) :
        dashes \in {EmptyMap, "--" :> <<>>, "--" :> <<"--watch">>},
        filter \in {EmptyMap, "filter" :> <<"b">>},
        force \in BOOLEAN}

InheritInit ==
    /\ env \in InheritEnvs
    /\ config \in InheritConfigs
    /\ proc \in {[NoProc EXCEPT !.cwd = cwd, !.options = options] :
                    cwd \in ToSet(DirNames), options \in InheritOptions}
    /\ requestedTasks = <<>>
    /\ maxConcurrentTasks = 1
    /\ allTasks = EmptyMap
    /\ sortedTaskKeys = <<>>
    /\ pc = "inherit"
    /\ failMessage = NoFail
    /\ workers = EmptyMap
    /\ started = <<>>
    /\ lastTick = NoTick
    /\ resolved = 0
    /\ disk = EmptyMap
    /\ previous = NoCache
    /\ runs = <<>>
    /\ fs = NoCache
    /\ jobs = EmptyMap

InheritNext == \E status \in ChildStatuses : Inherit(status)

InheritSpec == InheritInit /\ [][InheritNext]_vars

----------------------------------------------------------------------------
(* The constructor on requests with filter paths *)

\* filter path lists: none, a relative and an absolute workspace directory, a
\* glob, a directory that is no workspace, and two paths that match the same
\* workspace
FilterLists ==
    {<<>>, <<"a">>, <<join(RootDir, "a")>>, <<"*">>, <<"c">>, <<"b", "*">>}

FilteredRequest(scriptName, filterPaths) ==
    [scriptName |-> scriptName, extraArgs |-> <<>>, force |-> FALSE, filterPaths |-> filterPaths]

FilteredRequests ==
    {FilteredRequest(ScriptNames[i], f) : i \in 1..Len(ScriptNames), f \in FilterLists}

\* no request, one request with filter paths, or one followed by a plain request
BuildRequestLists ==
    {<<>>} \cup {<<r>> : r \in FilteredRequests}
           \cup {<<r, Request(ScriptNames[i])>> : r \in FilteredRequests, i \in 1..Len(ScriptNames)}

\* the parallel flag plays no part in the constructor
BuildSpecConfigs ==
    {c \in Configs : c.scripts.build.parallel /\ c.scripts.test.parallel}

BuildInit == Start(BuildSpecConfigs, BuildRequestLists)

BuildNext == Construct

BuildSpec == BuildInit /\ [][BuildNext]_vars

----------------------------------------------------------------------------
(* The constructor over requests with extra arguments and the force flag *)

ArgsLists == {<<>>, <<"--watch">>}

ArgsRequests ==
    [scriptName : ToSet(ScriptNames), extraArgs : ArgsLists, force : BOOLEAN,
     filterPaths : {<<>>, <<"a">>, <<"b">>}]

\* one request or two
ArgsRequestLists == {<<r>> : r \in ArgsRequests} \cup {<<r1, r2>> : r1, r2 \in ArgsRequests}

\* b is a local dependency of a, and both declare both scripts
ArgsConfigs ==
    {c \in BuildSpecConfigs :
        c.project.workspaces = <<Workspace("a", {"build", "test"}, <<"@b">>),
                                 Workspace("b", {"build", "test"}, <<>>)>>}

ArgsInit == Start(ArgsConfigs, ArgsRequestLists)

ArgsNext == Construct

ArgsSpec == ArgsInit /\ [][ArgsNext]_vars

----------------------------------------------------------------------------
(* Notions the claims are stated in *)

Keys == DOMAIN allTasks

Status(key) == allTasks[key].status

Terminal(key) == Status(key) \in {"success:eager", "success:lazy", "failure"}

Successful(key) == Status(key) \in {"success:eager", "success:lazy"}

DepSet(key) == ToSet(allTasks[key].dependencies)

RunningKeys == {key \in Keys : Status(key) = "running"}

Constructed == pc \in {"constructed", "running"}

\* the index of a key in sortedTaskKeys, 0 when it is not there
SortedIndex(key) == IndexOf(sortedTaskKeys, key, 1)

RECURSIVE DepClosure(_, _)
DepClosure(S, n) ==
    IF n = 0 THEN S
    ELSE DepClosure(S \cup UNION {DepSet(key) : key \in S}, n - 1)

\* the transitive dependencies of a node
TransitiveDeps(key) == DepClosure(DepSet(key), Cardinality(Keys))

HasFailedTransitiveDep(key) == \E dep \in TransitiveDeps(key) : Status(dep) = "failure"

----------------------------------------------------------------------------
(* C1: in every state of a run the number of tasks whose status is        *)
(* running is at most maxConcurrentTasks.                                  *)
C1_RunningAtMostMax == Cardinality(RunningKeys) <= maxConcurrentTasks

\* two tasks run at capacity 2 while a third, ready one waits, after a worker
\* has already returned
C1_Witness ==
    /\ maxConcurrentTasks = 2
    /\ Cardinality(RunningKeys) = 2
    /\ \E key \in Keys : Terminal(key)
    /\ \E key \in Keys : isTaskReady(allTasks, key)

(* C2: a task goes from pending to running only when every one of its     *)
(* dependencies has a success status, and no task is running or terminal  *)
(* while one of its dependencies is pending, running or failed.           *)
C2_StartsAfterDependencies ==
    /\ [][\A key \in Keys :
            (Status(key) = "pending" /\ allTasks'[key].status = "running")
                => \A dep \in DepSet(key) : startsWithSuccess(allTasks'[dep].status)]_vars
    /\ [](\A key \in Keys :
            Status(key) # "pending" => \A dep \in DepSet(key) : Successful(dep))

\* a task with two dependencies runs
C2_Witness ==
    \E key \in Keys : Status(key) = "running" /\ Cardinality(DepSet(key)) = 2

(* C3: no two tasks with the same scriptName and parallel=false are       *)
(* running at once.                                                        *)
C3_UnparallelizableSerialized ==
    \A k1, k2 \in RunningKeys :
        (/\ k1 # k2
         /\ allTasks[k1].scriptName = allTasks[k2].scriptName
         /\ ~ allTasks[k1].taskConfig.parallel
         /\ ~ allTasks[k2].taskConfig.parallel) => FALSE

(* C4: when the constructor reports no cycle, every dependency of a node  *)
(* is in sortedTaskKeys at a strictly smaller index than the node.         *)
C4_SortedIsTopological ==
    Constructed =>
        \A key \in Keys : \A dep \in DepSet(key) :
            /\ SortedIndex(dep) > 0
            /\ SortedIndex(dep) < SortedIndex(key)

\* a diamond: a node with two dependencies, one of which depends on the other
C4_Witness ==
    /\ Constructed
    /\ \E key \in Keys : \E d1, d2 \in DepSet(key) : d1 # d2 /\ d2 \in DepSet(d1)

----------------------------------------------------------------------------
(* The dependency relation the configuration declares, read off config     *)
(* and requestedTasks alone.                                               *)

WorkspaceSet == ToSet(config.project.workspaces)

WorkspaceDirSet == {w.dir : w \in WorkspaceSet}

WorkspaceAt(dir) ==
    IF dir = config.project.root.dir THEN config.project.root
    ELSE CHOOSE w \in WorkspaceSet : w.dir = dir

LocalDepDirs(w) ==
    {v.dir : v \in {v \in WorkspaceSet : Includes(w.localDependencyWorkspaceNames, v.name)}}

\* the directories a runsAfter scope covers, seen from workspace w
ScopeDirs(w, in) ==
    CASE in = "self-only" -> {w.dir}
      [] in = "self-and-dependencies" -> {w.dir} \cup LocalDepDirs(w)
      [] OTHER -> WorkspaceDirSet

\* the keys a script resolves to within a set of directories
TargetKeys(scriptName, dirs) ==
    IF config.scripts[scriptName].execution = "top-level"
    THEN {<<scriptName, config.project.root.dir>>}
    ELSE {<<scriptName, d>> : d \in {d \in dirs \cap WorkspaceDirSet :
                                        scriptName \in WorkspaceAt(d).scripts}}

\* the keys a node depends on: runsAfter edges plus dependent-mode edges
EdgesOf(key) ==
    LET w == WorkspaceAt(key[2])
        cfg == config.scripts[key[1]]
    IN  UNION {TargetKeys(e.scriptName, ScopeDirs(w, e.in)) : e \in ToSet(cfg.runsAfterEntries)}
        \cup (IF cfg.execution = "dependent"
              THEN {<<key[1], d>> : d \in {d \in LocalDepDirs(w) : key[1] \in WorkspaceAt(d).scripts}}
              ELSE {})

\* the directories a filter path of the model stands for: a relative path
\* names a child of the root, an absolute one itself, and * every child
FilterDirs(pattern) ==
    CASE pattern \in {"a", "b", "c"} -> {RootDir \o "/" \o pattern}
      [] pattern = "*" -> {RootDir \o "/a", RootDir \o "/b", RootDir \o "/c"}
      [] OTHER -> {pattern}

\* the directories a request covers
RequestedDirs(r) ==
    IF r.filterPaths = <<>> THEN WorkspaceDirSet
    ELSE UNION {FilterDirs(pattern) : pattern \in ToSet(r.filterPaths)}

RequestedKeys ==
    UNION {TargetKeys(r.scriptName, RequestedDirs(r)) : r \in ToSet(requestedTasks)}

RECURSIVE EdgeClosure(_, _)
EdgeClosure(S, n) ==
    IF n = 0 THEN S
    ELSE EdgeClosure(S \cup UNION {EdgesOf(key) : key \in S}, n - 1)

ReachableKeys == EdgeClosure(RequestedKeys, Cardinality(AllKeys))

RelationHasCycle ==
    \E key \in ReachableKeys : key \in EdgeClosure(EdgesOf(key), Cardinality(AllKeys))

(* C5: the constructor reports a circular dependency exactly when the     *)
(* dependency relation reachable from the requested tasks has a cycle; the *)
(* message lists the visitation path (a path of the relation from a        *)
(* requested key, without repetition) followed by the repeated key; and no *)
(* graph with a cycle reaches the scheduler.                               *)
C5_CycleReported ==
    /\ pc \in {"failed", "constructed"} => ((pc = "failed") <=> RelationHasCycle)
    /\ pc # "new" =>
        /\ pc = "failed" =>
             LET n == Len(failMessage)
             IN  /\ n >= 2
                 /\ failMessage[1] \in RequestedKeys
                 /\ \A i \in 1..(n - 1) : failMessage[i + 1] \in EdgesOf(failMessage[i])
                 /\ \A i, j \in 1..(n - 1) : i # j => failMessage[i] # failMessage[j]
                 /\ \E i \in 1..(n - 1) : failMessage[i] = failMessage[n]
        /\ Constructed => (failMessage = NoFail /\ \A key \in Keys : key \notin TransitiveDeps(key))

\* a reported cycle that the visit entered from outside: the repeated key is
\* not the first key of the path
C5_Witness ==
    /\ pc = "failed"
    /\ Len(failMessage) = 4
    /\ failMessage[1] # failMessage[4]

(* C6: the only status changes are pending -> running, made by tick for a *)
(* key it starts, and running -> success:eager, success:lazy or failure,   *)
(* made when the key's worker returns; a terminal status is kept.          *)
C6_StatusTransitions ==
    [][\A key \in Keys :
          \/ allTasks'[key].status = Status(key)
          \/ /\ Status(key) = "pending"
             /\ allTasks'[key].status = "running"
             /\ Includes(lastTick'.starts, key)
          \/ /\ Status(key) = "running"
             /\ allTasks'[key].status \in {"success:eager", "success:lazy", "failure"}
             /\ workers[key] > 0]_vars

\* a finished run that holds each of the three terminal statuses
C6_Witness ==
    /\ resolved = 1
    /\ \E k1, k2, k3 \in Keys :
          /\ Status(k1) = "failure"
          /\ Status(k2) = "success:lazy"
          /\ Status(k3) = "success:eager"

(* C7: a task with a failed task among its transitive dependencies is     *)
(* never ready and never leaves pending, also when the run has signalled   *)
(* completion.                                                             *)
C7_DependentsOfFailedStayPending ==
    \A key \in Keys :
        HasFailedTransitiveDep(key) =>
            /\ Status(key) = "pending"
            /\ ~ isTaskReady(allTasks, key)

\* the run is complete and a task is pending behind a failure two edges away
C7_Witness ==
    /\ resolved = 1
    /\ \E key \in Keys :
          /\ Status(key) = "pending"
          /\ HasFailedTransitiveDep(key)
          /\ \A dep \in DepSet(key) : Status(dep) # "failure"

----------------------------------------------------------------------------
(* Liveness, under FairSpec: the constructor and runAllTasks are carried   *)
(* out and every started worker returns.                                   *)

\* every task is terminal, or pending behind a failed task
Settled ==
    \A key \in Keys :
        \/ Terminal(key)
        \/ Status(key) = "pending" /\ HasFailedTransitiveDep(key)

(* C8: a failure cancels no running task: the others keep running in the  *)
(* step that records it, and a running task stops running only by         *)
(* reaching a terminal status; and the run reaches a state where every     *)
(* task is terminal except those with a failed task among their transitive *)
(* dependencies, so every other task was started and ran to its end.       *)
C8_FailureIsolation ==
    /\ [][\A k1, k2 \in Keys :
            (/\ k1 # k2
             /\ Status(k1) = "running"
             /\ allTasks'[k1].status = "failure"
             /\ Status(k2) = "running") => allTasks'[k2].status = "running"]_vars
    /\ [][\A key \in Keys :
            Status(key) = "running" =>
                allTasks'[key].status \in {"running", "success:eager", "success:lazy", "failure"}]_vars
    /\ (pc = "constructed") ~> (pc = "running" /\ Settled)

\* with one worker at a time: a task failed, and a task started after it has
\* ended in success
C8_Witness ==
    /\ maxConcurrentTasks = 1
    /\ \E i, j \in 1..Len(started) :
          /\ i < j
          /\ Status(started[i]) = "failure"
          /\ Successful(started[j])

(* C9: a run started on a constructed graph signals completion; when it   *)
(* does and no task has failed, every task has a success status; and on an *)
(* empty graph the first tick signals it.                                  *)
C9_RunCompletes ==
    /\ (pc = "constructed") ~> (resolved = 1)
    /\ []((resolved >= 1 /\ \A key \in Keys : Status(key) # "failure")
            => \A key \in Keys : Successful(key))
    /\ [][(pc = "constructed" /\ Keys = {}) => resolved' = 1]_vars

\* a complete run of four tasks, all successful
C9_Witness ==
    /\ resolved = 1
    /\ Cardinality(Keys) = 4
    /\ \A key \in Keys : Successful(key)

----------------------------------------------------------------------------
\* the ready tasks of the latest tick in the order of sortedTaskKeys
ReadyInConstructionOrder ==
    SelectSeq(sortedTaskKeys, LAMBDA key : Includes(lastTick.readyTasks, key))

(* C10, as claimed: the tasks a tick starts are those of its ready tasks  *)
(* that come first in sortedTaskKeys, started in sortedTaskKeys order.     *)
C10_StartsInConstructionOrder ==
    lastTick.starts = SubSeq(ReadyInConstructionOrder, 1, Len(lastTick.starts))

(* C10, amended: the tasks a tick starts are those of its ready tasks     *)
(* whose keys come first in string order, started in ascending key order.  *)
C10_StartsInKeyOrder ==
    LET starts == lastTick.starts
        ready == ToSet(lastTick.readyTasks)
    IN  /\ ToSet(starts) \subseteq ready
        /\ \A i, j \in 1..Len(starts) : i < j => KeyLess(starts[i], starts[j])
        /\ \A key \in ready \ ToSet(starts) :
              \A i \in 1..Len(starts) : KeyLess(starts[i], key)

\* a tick with more ready tasks than it can start, whose choice is not the
\* head of the ready tasks in sortedTaskKeys order
C10_Witness ==
    /\ Len(lastTick.starts) > 0
    /\ Len(lastTick.starts) < Len(lastTick.readyTasks)
    /\ lastTick.starts # SubSeq(ReadyInConstructionOrder, 1, Len(lastTick.starts))

----------------------------------------------------------------------------
(* The builder's targets, under BuildSpec *)

TopLevelScripts == {scriptName \in ToSet(ScriptNames) : config.scripts[scriptName].execution = "top-level"}

RootKey(scriptName) == <<scriptName, config.project.root.dir>>

\* the positions of a node's dependencies that hold a key of the script
DepsOnScript(key, scriptName) ==
    {i \in 1..Len(allTasks[key].dependencies) : allTasks[key].dependencies[i][1] = scriptName}

(* C13: a top-level script has no node but the one keyed on the project    *)
(* root directory; a request for it creates that node whatever its filter  *)
(* paths and whichever workspaces declare the script; and a task that runs *)
(* after it has exactly one dependency of that script, the root key.       *)
C13_TopLevelSingleRootNode ==
    Constructed =>
        \A scriptName \in TopLevelScripts :
            /\ \A key \in Keys : key[1] = scriptName => key = RootKey(scriptName)
            /\ (\E r \in ToSet(requestedTasks) : r.scriptName = scriptName)
                    => RootKey(scriptName) \in Keys
            /\ \A key \in Keys :
                  (\E e \in ToSet(allTasks[key].taskConfig.runsAfterEntries) :
                        e.scriptName = scriptName)
                    => /\ RootKey(scriptName) \in Keys
                       /\ Cardinality(DepsOnScript(key, scriptName)) = 1
                       /\ \A i \in DepsOnScript(key, scriptName) :
                             allTasks[key].dependencies[i] = RootKey(scriptName)

\* top-level test is requested with a filter path that matches no workspace,
\* workspace b does not declare it, and the build tasks run after it
C13_Witness ==
    /\ Constructed
    /\ "test" \in TopLevelScripts
    /\ Len(requestedTasks) = 2
    /\ requestedTasks[1].scriptName = "test"
    /\ requestedTasks[1].filterPaths = <<"c">>
    /\ \E w \in WorkspaceSet : "test" \notin w.scripts
    /\ Keys = {RootKey("test"), <<"build", RootDir \o "/a">>, <<"build", RootDir \o "/b">>}
    /\ \A key \in Keys : key[1] = "build" => allTasks[key].dependencies = <<RootKey("test")>>

(* C14: a request for a script that is not top-level creates a node for    *)
(* every workspace directory that matches one of its filter paths (every   *)
(* workspace when it has none; a relative path is taken from the project   *)
(* root) and declares the script; the graph has no node but these and the  *)
(* upstream tasks of its nodes; and every node is created once.            *)
C14_NodesAreMatchingWorkspaces ==
    Constructed =>
        /\ \A r \in ToSet(requestedTasks) :
              r.scriptName \notin TopLevelScripts =>
                \A w \in WorkspaceSet :
                    (w.dir \in RequestedDirs(r) /\ r.scriptName \in w.scripts)
                        => <<r.scriptName, w.dir>> \in Keys
        /\ Keys = ReachableKeys
        /\ Len(sortedTaskKeys) = Cardinality(Keys)
        /\ ToSet(sortedTaskKeys) = Keys

\* two filter paths match workspace b, one of them a glob that also matches a;
\* b does not declare the script, and a gets the only node
C14_Witness ==
    /\ Constructed
    /\ Len(requestedTasks) = 1
    /\ requestedTasks[1].scriptName = "test"
    /\ requestedTasks[1].filterPaths = <<"b", "*">>
    /\ "test" \notin TopLevelScripts
    /\ \E w \in WorkspaceSet : "test" \notin w.scripts
    /\ Keys = {<<"test", RootDir \o "/a">>}

\* the filter paths the claim gives a scope, seen from workspace w
ExpectedFilterPaths(w, in) ==
    CASE in = "self-only" -> <<w.dir>>
      [] in = "self-and-dependencies" ->
            <<w.dir>> \o [i \in 1..Len(w.localDependencyWorkspaceNames) |->
                            (CHOOSE v \in WorkspaceSet :
                                v.name = w.localDependencyWorkspaceNames[i]).dir]
      [] OTHER -> <<>>

\* the keys a node's runsAfter entries select
RunsAfterKeys(key) ==
    UNION {TargetKeys(e.scriptName, ScopeDirs(WorkspaceAt(key[2]), e.in)) :
            e \in ToSet(config.scripts[key[1]].runsAfterEntries)}

(* C15: for every runsAfter entry of a node the upstream script is         *)
(* enqueued with the filter paths of its scope (self-only: the node's own  *)
(* workspace directory; self-and-dependencies: that directory and those of *)
(* the workspace's direct local dependencies; otherwise none, that is      *)
(* every workspace), and the node's dependencies begin with the keys of    *)
(* the upstream tasks so selected.                                         *)
C15_RunsAfterScopes ==
    Constructed =>
        \A key \in Keys :
            /\ \A e \in ToSet(allTasks[key].taskConfig.runsAfterEntries) :
                  runsAfterFilterPaths(e, WorkspaceAt(key[2]))
                      = ExpectedFilterPaths(WorkspaceAt(key[2]), e.in)
            /\ LET n == Cardinality(RunsAfterKeys(key))
               IN  /\ n <= Len(allTasks[key].dependencies)
                   /\ ToSet(SubSeq(allTasks[key].dependencies, 1, n)) = RunsAfterKeys(key)

\* test of workspace a runs after build in itself and its dependencies: its
\* dependencies are the builds of a and of b, and test of b has that of b only
C15_Witness ==
    /\ Constructed
    /\ config.scripts.test.runsAfterEntries = <<RunsAfter("build", "self-and-dependencies")>>
    /\ <<"test", RootDir \o "/a">> \in Keys
    /\ <<"test", RootDir \o "/b">> \in Keys
    /\ allTasks[<<"test", RootDir \o "/a">>].dependencies
          = <<<<"build", RootDir \o "/a">>, <<"build", RootDir \o "/b">>>>
    /\ allTasks[<<"test", RootDir \o "/b">>].dependencies = <<<<"build", RootDir \o "/b">>>>

\* the keys of a node's script in the local dependencies of its workspace
LocalDependencyKeys(key) ==
    {<<key[1], d>> : d \in {d \in LocalDepDirs(WorkspaceAt(key[2])) :
                                key[1] \in WorkspaceAt(d).scripts}}

(* C16: the dependencies of a dependent node hold the key of every local   *)
(* dependency workspace that declares the node's script, and each such key *)
(* is a node; the dependencies of an independent or top-level node are     *)
(* those of its runsAfter entries and nothing more.                        *)
C16_DependentModeEdges ==
    Constructed =>
        \A key \in Keys :
            IF allTasks[key].taskConfig.execution = "dependent"
            THEN LocalDependencyKeys(key) \subseteq (DepSet(key) \cap Keys)
            ELSE /\ DepSet(key) = RunsAfterKeys(key)
                 /\ Len(allTasks[key].dependencies) = Cardinality(RunsAfterKeys(key))

\* workspace a depends on b: dependent build of a depends on build of b, and
\* independent test of a, in the same workspaces, has no dependency
C16_Witness ==
    /\ Constructed
    /\ LocalDepDirs(WorkspaceAt(RootDir \o "/a")) = {RootDir \o "/b"}
    /\ config.scripts.build.execution = "dependent"
    /\ config.scripts.test.execution = "independent"
    /\ <<"build", RootDir \o "/a">> \in Keys
    /\ <<"test", RootDir \o "/a">> \in Keys
    /\ <<"test", RootDir \o "/b">> \in Keys
    /\ allTasks[<<"build", RootDir \o "/a">>].dependencies = <<<<"build", RootDir \o "/b">>>>
    /\ allTasks[<<"test", RootDir \o "/a">>].dependencies = <<>>

----------------------------------------------------------------------------
\* the ready tasks are exactly two, both of parallel scripts
TwoParallelReady ==
    LET ready == {key \in Keys : isTaskReady(allTasks, key)}
    IN  /\ Cardinality(ready) = 2
        /\ \A key \in ready : allTasks[key].taskConfig.parallel

(* C18: when exactly two tasks are ready for the first tick, both of       *)
(* parallel scripts, the tick starts both if maxConcurrentTasks is 2 and   *)
(* one if it is 1; and with maxConcurrentTasks 1 a task is started only in *)
(* a step that leaves every task started before it in a terminal status.   *)
C18_ParallelStarts ==
    /\ [][(pc = "constructed" /\ TwoParallelReady) =>
            LET ready == {key \in Keys : isTaskReady(allTasks, key)}
                running == {key \in ready : allTasks'[key].status = "running"}
            IN  /\ maxConcurrentTasks = 2 => running = ready
                /\ maxConcurrentTasks = 1 => Cardinality(running) = 1]_vars
    /\ [][(maxConcurrentTasks = 1 /\ Len(started') > Len(started)) =>
            \A i \in 1..Len(started) :
                allTasks'[started[i]].status \in {"success:eager", "success:lazy", "failure"}]_vars

\* two parallel tasks without dependencies, both started by the first tick and
\* both running, nothing else in the graph
C18_Witness ==
    /\ pc = "running"
    /\ maxConcurrentTasks = 2
    /\ Cardinality(Keys) = 2
    /\ Len(started) = 2
    /\ \A key \in Keys :
          /\ Status(key) = "running"
          /\ allTasks[key].dependencies = <<>>
          /\ allTasks[key].taskConfig.parallel

----------------------------------------------------------------------------
\* max(1, cpuCount - 1)
DefaultCapacity == IF env.numCpus - 1 >= 1 THEN env.numCpus - 1 ELSE 1

(* C17, as claimed: maxConcurrentTasks is 2 whenever the force-parallel    *)
(* variable is set, otherwise 1 in test mode and max(1, cpuCount - 1) by   *)
(* default, and at least 1 in every case.                                  *)
C17_TwoWheneverSet ==
    pc # "load" =>
        /\ env.FORCE_PARALLEL # Undefined => maxConcurrentTasks = 2
        /\ (env.FORCE_PARALLEL = Undefined /\ env.isTest) => maxConcurrentTasks = 1
        /\ (env.FORCE_PARALLEL = Undefined /\ ~ env.isTest) => maxConcurrentTasks = DefaultCapacity
        /\ maxConcurrentTasks >= 1

(* C17, amended: maxConcurrentTasks is 2 whenever the force-parallel       *)
(* variable is set to a non-empty string (whatever the string, and also in *)
(* test mode); when it is not set or empty, 1 in test mode and             *)
(* max(1, cpuCount - 1) by default; and at least 1 in every case.          *)
C17_TwoWheneverNonEmpty ==
    pc # "load" =>
        LET forced == env.FORCE_PARALLEL \notin {Undefined, ""}
        IN  /\ forced => maxConcurrentTasks = 2
            /\ (~ forced /\ env.isTest) => maxConcurrentTasks = 1
            /\ (~ forced /\ ~ env.isTest) => maxConcurrentTasks = DefaultCapacity
            /\ maxConcurrentTasks >= 1

\* a run without cpus whose force-parallel variable is set to the empty
\* string, outside test mode: one task at a time
C17_Witness ==
    /\ pc = "running"
    /\ env.FORCE_PARALLEL = ""
    /\ ~ env.isTest
    /\ env.numCpus = 0
    /\ maxConcurrentTasks = 1
    /\ Cardinality(RunningKeys) = 1

----------------------------------------------------------------------------
(* The worker and the output cache, under PipelineSpec *)

\* the key's worker hit an I/O error in cacheOutputs or in manifest.close()
HitIoError(key) == jobs[key].error = "io"

C12_FatalBeforeExecution ==
    pc = "aborted" =>
        /\ \A key \in DOMAIN jobs : ~ jobs[key].ranCommand
        /\ fs = previous

\* the task whose paths a key's cacheOutputs works on
TaskOf(key) == [workspace |-> key[2], scriptName |-> key[1]]

\* cacheOutputs has returned for the key
Captured(key) == jobs[key].phase \in {"return", "done"} /\ jobs[key].didSucceed

(* C19: once cacheOutputs has returned for a task with a non-empty output  *)
(* file list, the task's cache output directory holds the files of the     *)
(* list and no other, each under its root-relative path with the mtime of  *)
(* the file on disk; its output manifest holds one line                    *)
(* "{path}\t{mtime}\n" per file, in the order of the list; and             *)
(* task.outputFiles is the list.                                           *)
C19_CacheHoldsOutputs ==
    \A key \in DOMAIN jobs :
        LET outputFiles == SelectSeq(outputCandidates(allTasks[key]),
                                     LAMBDA file : file \in DOMAIN disk)
            outDir == getOutputPath(TaskOf(key))
            outManifestPath == getOutputManifestPath(TaskOf(key))
        IN  (Captured(key) /\ Len(outputFiles) > 0) =>
                /\ outDir \in DOMAIN fs.dirs
                /\ DOMAIN fs.dirs[outDir] = ToSet(outputFiles)
                /\ \A file \in ToSet(outputFiles) : fs.dirs[outDir][file] = disk[file]
                /\ outManifestPath \in DOMAIN fs.files
                /\ fs.files[outManifestPath]
                      = [i \in 1..Len(outputFiles) |->
                            outputFiles[i] \o "\t" \o ToString(disk[outputFiles[i]]) \o "\n"]
                /\ allTasks[key].outputFiles = outputFiles

\* build of workspace a has captured its two outputs over the cache of an
\* earlier run, and its worker has returned
C19_Witness ==
    /\ previous = StaleCache
    /\ \E key \in DOMAIN jobs :
          /\ key = <<"build", RootDir \o "/a">>
          /\ jobs[key].phase = "done"
          /\ Status(key) = "success:eager"
          /\ allTasks[key].outputFiles = <<"a/dist/x.js", "a/dist/y.js">>

\* what the cache holds at the key's output directory and manifest path
CacheAt(key) ==
    [dir |-> IF getOutputPath(TaskOf(key)) \in DOMAIN fs.dirs
             THEN <<fs.dirs[getOutputPath(TaskOf(key))]>> ELSE <<>>,
     file |-> IF getOutputManifestPath(TaskOf(key)) \in DOMAIN fs.files
              THEN <<fs.files[getOutputManifestPath(TaskOf(key))]>> ELSE <<>>]

(* C20: two distinct tasks have distinct cache output directories and      *)
(* distinct output manifest paths, and no output directory is a manifest   *)
(* path; and a step changes what the cache holds at a task's directory or  *)
(* manifest path only if it is a step of that task's own cacheOutputs.     *)
C20_NoCrossTaskWrites ==
    /\ [](\A k1, k2 \in Keys :
            /\ getOutputPath(TaskOf(k1)) # getOutputManifestPath(TaskOf(k2))
            /\ k1 # k2 =>
                  /\ getOutputPath(TaskOf(k1)) # getOutputPath(TaskOf(k2))
                  /\ getOutputManifestPath(TaskOf(k1)) # getOutputManifestPath(TaskOf(k2)))
    /\ [][\A key \in Keys :
            CacheAt(key)' # CacheAt(key) =>
                /\ jobs[key].phase \in {"capture", "closing"}
                /\ jobs'[key].phase # jobs[key].phase]_vars

\* the cacheOutputs calls of two tasks are both at their await, each with the
\* lines of its own manifest in its stream
C20_Witness ==
    \E k1, k2 \in DOMAIN jobs :
        /\ k1 # k2
        /\ jobs[k1].phase = "closing"
        /\ jobs[k2].phase = "closing"
        /\ Len(jobs[k1].stream) = 2
        /\ Len(jobs[k2].stream) = 2

----------------------------------------------------------------------------
\* the tasks a step takes from pending to running
StartedInStep == {key \in Keys : Status(key) = "pending" /\ allTasks'[key].status = "running"}

(* C26: one tick takes at most one task of an unparallelizable script from *)
(* pending to running: two tasks started in the same step are of different *)
(* scripts or of a parallel script.                                        *)
C26_OneUnparallelizablePerTick ==
    [][\A k1, k2 \in StartedInStep :
          (k1 # k2 /\ allTasks[k1].scriptName = allTasks[k2].scriptName)
              => allTasks[k1].taskConfig.parallel]_vars

\* capacity 2, one task running: the unparallelizable build of one workspace,
\* while that of the other workspace is ready and pending
C26_Witness ==
    /\ maxConcurrentTasks = 2
    /\ Len(lastTick.starts) = 1
    /\ lastTick.runningTasks = <<>>
    /\ Cardinality(RunningKeys) = 1
    /\ \E k1 \in RunningKeys : \E k2 \in Keys :
          /\ k1 # k2
          /\ allTasks[k1].scriptName = allTasks[k2].scriptName
          /\ ~ allTasks[k1].taskConfig.parallel
          /\ isTaskReady(allTasks, k2)

\* sortedTaskKeys holds no key twice
SortedHasNoDuplicate ==
    \A i, j \in 1..Len(sortedTaskKeys) : i # j => sortedTaskKeys[i] # sortedTaskKeys[j]

(* C27: the constructor reports a cycle only when the declared relation    *)
(* has one: a key reached again by a path that does not hold it (a         *)
(* diamond, a second request for the task) is passed over, with no second  *)
(* node and no second entry in sortedTaskKeys.                             *)
C27_NoFalseCycle ==
    /\ pc = "failed" => RelationHasCycle
    /\ Constructed =>
          /\ failMessage = NoFail
          /\ SortedHasNoDuplicate
          /\ Len(sortedTaskKeys) = Cardinality(Keys)

\* the same script is requested twice, and its nodes form a diamond with the
\* script they run after: the graph is built
C27_Witness ==
    /\ Constructed
    /\ Len(requestedTasks) = 2
    /\ requestedTasks[1].scriptName = requestedTasks[2].scriptName
    /\ \E key \in Keys : \E d1, d2 \in DepSet(key) : d1 # d2 /\ d2 \in DepSet(d1)

(* C28: in a built graph the keys of allTasks are the entries of           *)
(* sortedTaskKeys, no entry occurs twice, and every node's key field is    *)
(* the key it is stored under.                                             *)
C28_KeysAreSortedKeys ==
    Constructed =>
        /\ Keys = ToSet(sortedTaskKeys)
        /\ \A i \in 1..Len(sortedTaskKeys) : \A j \in 1..(i - 1) :
              sortedTaskKeys[j] # sortedTaskKeys[i]
        /\ \A key \in Keys : allTasks[key].key = key

\* a built graph of five nodes: the builds and tests of two workspaces and a
\* top-level task
C28_Witness ==
    /\ Constructed
    /\ Cardinality(Keys) >= 4
    /\ Len(sortedTaskKeys) = Cardinality(Keys)
    /\ \E k1, k2 \in Keys : k1[1] # k2[1]

(* C29: in a built graph every key in a node's dependencies is a key of    *)
(* allTasks, whether a runsAfter entry (of a top-level script or not) or   *)
(* the dependent mode put it there.                                        *)
C29_NoDanglingEdges ==
    Constructed => \A key \in Keys : \A i \in 1..Len(allTasks[key].dependencies) :
                      allTasks[key].dependencies[i] \in Keys

\* a dependent build that runs after top-level test: its dependencies are the
\* root key of test and the build of its local dependency
C29_Witness ==
    /\ Constructed
    /\ "test" \in TopLevelScripts
    /\ \E key \in Keys :
          /\ allTasks[key].taskConfig.execution = "dependent"
          /\ Len(allTasks[key].dependencies) = 2
          /\ allTasks[key].dependencies[1] = RootKey("test")
          /\ allTasks[key].dependencies[2][1] = key[1]

(* C30: completion is signalled by a tick whose snapshots of the running   *)
(* and of the ready tasks are both empty and by no other step; when it has *)
(* been signalled no task is running and no pending task has all its       *)
(* dependencies successful; and a run started on a built graph signals it  *)
(* once and never a second time.                                           *)
C30_CompletionSignalledOnce ==
    /\ [][resolved' # resolved =>
            /\ lastTick'.runningTasks = <<>>
            /\ lastTick'.readyTasks = <<>>
            /\ \A key \in Keys : allTasks'[key].status # "running"
            /\ \A key \in Keys : ~ isTaskReady(allTasks', key)]_vars
    /\ [](resolved >= 1 =>
            /\ RunningKeys = {}
            /\ \A key \in Keys : ~ isTaskReady(allTasks, key))
    /\ [](resolved <= 1)
    /\ (pc = "constructed") ~> (resolved = 1)

\* completion has been signalled with a task pending behind a failure and
\* every other task terminal
C30_Witness ==
    /\ resolved = 1
    /\ Len(started) >= 2
    /\ \E key \in Keys : Status(key) = "pending"
    /\ \E key \in Keys : Status(key) = "failure"
    /\ \E key \in Keys : Successful(key)

----------------------------------------------------------------------------
\* what the cache the process found holds at a path, or nothing
OutputCacheOf(cache, task) ==
    [dir |-> IF getOutputPath(task) \in DOMAIN cache.dirs
             THEN <<cache.dirs[getOutputPath(task)]>> ELSE <<>>,
     file |-> IF getOutputManifestPath(task) \in DOMAIN cache.files
              THEN <<cache.files[getOutputManifestPath(task)]>> ELSE <<>>]

\* runTaskIfNeeded has made the key's cache decision
Decided(key) == "manifest" \in DOMAIN jobs[key]

\* the key's cache decision as the claim words it, against the manifests the
\* process found
MustRun(key) ==
    LET path == getManifestPath(allTasks[key])
    IN  \/ allTasks[key].force
        \/ path \notin DOMAIN previous.files
        \/ fingerprint(previous.files[path]) # fingerprint(jobs[key].manifest)

\* the run that ended last, and the one before it
LastRun == runs[Len(runs)]

RunBefore == runs[Len(runs) - 1]

AllSuccessful(run) ==
    \A key \in DOMAIN run.status : run.status[key] \in {"success:eager", "success:lazy"}

RestoredInStep == {key \in Keys : jobs[key].phase = "restore" /\ jobs'[key].phase # "restore"}

(* C23: a restore leaves, of the files that match the task's output globs, *)
(* those the stored output manifest lists and no other, each with the      *)
(* mtime of the manifest, which is the mtime of the cached copy; a second  *)
(* restore changes nothing.                                                *)
C23_RestoreMatchesManifest ==
    [][\A key \in RestoredInStep :
          LET task == allTasks[key]
              stored == storedOutputs(fs, task)
          IN  /\ matchingOutputs(disk', task) = DOMAIN stored
              /\ \A file \in DOMAIN stored :
                    /\ disk'[file] = stored[file]
                    /\ disk'[file] = fs.dirs[getOutputPath(task)][file]
              /\ \A file \in DOMAIN disk' \ ToSet(outputCandidates(task)) :
                    file \in DOMAIN disk /\ disk'[file] = disk[file]
              /\ restoreOutputs(disk', fs', task) = disk']_vars

\* after the user added y.js to the dist directories, the restore of the
\* build of a has deleted a/dist/y.js and left x.js with its first mtime
C23_Witness ==
    /\ Len(runs) = 1
    /\ runs[1].edit = "stale-outputs"
    /\ \E key \in Keys :
          /\ key = getTaskKey(join(RootDir, "a"), "build")
          /\ jobs[key].phase = "return"
          /\ ~ jobs[key].ranCommand
          /\ jobs[key].didSucceed
    /\ "a/dist/y.js" \notin DOMAIN disk
    /\ "a/dist/x.js" \in DOMAIN disk
    /\ disk["a/dist/x.js"] = runs[1].disk["a/dist/x.js"]

\* whether the configuration declares that the key's manifest takes the
\* outputs of a dependency
DeclaresUsesOutput(key, dep) ==
    IF dep[1] = key[1]
    THEN config.scripts[key[1]].usesOutputFromDependencies
    ELSE \E e \in ToSet(config.scripts[key[1]].runsAfterEntries) :
            e.scriptName = dep[1] /\ e.usesOutput

\* the file lines a manifest can hold for the files of a dist directory
OutputLinesOf(dep) ==
    {fileLine(file, mtime) :
        file \in {join(relative(dep[2]), "dist/x.js"), join(relative(dep[2]), "dist/y.js")},
        mtime \in Mtimes}

\* the key was decided in the run before and since then neither its own
\* input files nor the manifests of its dependencies have changed
OnlyUpstreamOutputsDiffer(key) ==
    /\ Len(runs) >= 1
    /\ key \in DOMAIN LastRun.manifest
    /\ \A file \in inputFiles(allTasks[key], disk) \cup inputFiles(allTasks[key], LastRun.disk) :
          /\ file \in DOMAIN disk
          /\ file \in DOMAIN LastRun.disk
          /\ disk[file] = LastRun.disk[file]
    /\ \A dep \in DepSet(key) :
          /\ dep \in DOMAIN LastRun.manifest
          /\ Decided(dep)
          /\ jobs[dep].manifest = LastRun.manifest[dep]

(* C24: the manifest of a task whose configuration does not take the       *)
(* outputs of a dependency (usesOutput false on the runsAfter entry,       *)
(* usesOutputFromDependencies false for a local dependency) has no file    *)
(* line for a file of that dependency's dist directory; and when it takes  *)
(* the outputs of none of its dependencies, its fingerprint equals that of *)
(* the run before whenever nothing but upstream output files has changed.  *)
C24_UpstreamOutputsLeftOut ==
    \A key \in Keys :
        Decided(key) =>
            /\ \A dep \in DepSet(key) :
                  ~ DeclaresUsesOutput(key, dep) =>
                      ToSet(jobs[key].manifest) \cap OutputLinesOf(dep) = {}
            /\ ((\A dep \in DepSet(key) : ~ DeclaresUsesOutput(key, dep))
                  /\ OnlyUpstreamOutputsDiffer(key))
                    => fingerprint(jobs[key].manifest) = fingerprint(LastRun.manifest[key])

\* a forced second run has rebuilt b, whose x.js now has another mtime than
\* in the first run; the manifest of the dependent build of a, which does
\* not take the outputs of its dependencies, is that of the first run
C24_Witness ==
    /\ Len(runs) = 1
    /\ \E key \in Keys : \E dep \in DepSet(key) :
          /\ key[1] = dep[1]
          /\ ~ DeclaresUsesOutput(key, dep)
          /\ Decided(key)
          /\ OnlyUpstreamOutputsDiffer(key)
          /\ allTasks[dep].outputFiles # <<>>
          /\ \E file \in ToSet(allTasks[dep].outputFiles) :
                disk[file] # LastRun.disk[file]
          /\ jobs[key].manifest = LastRun.manifest[key]

(* C25: the exit code of a run is other than 0 if and only if some task    *)
(* has the status failure when the run completes, whatever tasks are left  *)
(* pending.                                                                *)
C25_ExitCodeIffFailure ==
    \A i \in 1..Len(runs) :
        (runs[i].exitCode # 0) <=> (\E key \in DOMAIN runs[i].status : runs[i].status[key] = "failure")

\* a run that ended with a failed build, the dependent build pending behind
\* it, and exit code 1; and before it a run that ended with exit code 0
C25_Witness ==
    /\ Len(runs) = 2
    /\ runs[1].exitCode = 0
    /\ runs[2].exitCode = 1
    /\ \E key \in DOMAIN runs[2].status : runs[2].status[key] = "pending"
    /\ Cardinality({key \in DOMAIN runs[2].status : runs[2].status[key] = "failure"}) = 1

----------------------------------------------------------------------------
\* the graph of the first n requests
PrefixGraph(n) == TaskGraph(SubSeq(requestedTasks, 1, n))

\* the request during whose enqueueTask call the key's node was created
CreatingIndex(key) ==
    CHOOSE n \in 1..Len(requestedTasks) :
        /\ key \in DOMAIN PrefixGraph(n).allTasks
        /\ key \notin DOMAIN PrefixGraph(n - 1).allTasks

CreatingRequest(key) == requestedTasks[CreatingIndex(key)]

(* C31: a node of another script than the request that created it, that is *)
(* a node created through a runsAfter relation, has no extra arguments and *)
(* the force flag of that request, which is the force flag of every node   *)
(* the request created, among them a node of another script that depends   *)
(* on a node of its script.                                                *)
C31_RunsAfterRequest ==
    Constructed =>
        \A key \in Keys :
            key[1] # CreatingRequest(key).scriptName =>
                /\ allTasks[key].extraArgs = <<>>
                /\ allTasks[key].force = CreatingRequest(key).force
                /\ \A d \in Keys :
                      CreatingIndex(d) = CreatingIndex(key) => allTasks[d].force = allTasks[key].force
                /\ \E d \in Keys :
                      /\ CreatingIndex(d) = CreatingIndex(key)
                      /\ d[1] # key[1]
                      /\ \E dep \in DepSet(d) : dep[1] = key[1]

\* build is requested with --watch and force; the tests it runs after have
\* no extra arguments and are forced
C31_Witness ==
    /\ Constructed
    /\ Len(requestedTasks) = 1
    /\ requestedTasks[1].scriptName = "build"
    /\ requestedTasks[1].extraArgs = <<"--watch">>
    /\ requestedTasks[1].force
    /\ \E key \in Keys :
          /\ key[1] = "test"
          /\ allTasks[key].extraArgs = <<>>
          /\ allTasks[key].force
          /\ \E d \in Keys : key \in DepSet(d) /\ allTasks[d].extraArgs = <<"--watch">>

(* C36: a node that exists after the first n requests has the same extra   *)
(* arguments, force flag, task config and dependencies in the graph of all *)
(* requests: reaching it again changes none of them.                       *)
C36_FirstVisitWins ==
    Constructed =>
        \A n \in 1..Len(requestedTasks) :
            \A key \in DOMAIN PrefixGraph(n).allTasks :
                /\ key \in Keys
                /\ allTasks[key].extraArgs = PrefixGraph(n).allTasks[key].extraArgs
                /\ allTasks[key].force = PrefixGraph(n).allTasks[key].force
                /\ allTasks[key].taskConfig = PrefixGraph(n).allTasks[key].taskConfig
                /\ allTasks[key].dependencies = PrefixGraph(n).allTasks[key].dependencies

\* the same script is requested twice for every workspace, the second time
\* with other extra arguments and the force flag: the nodes have those of
\* the first request
C36_Witness ==
    /\ Constructed
    /\ Len(requestedTasks) = 2
    /\ requestedTasks[1].scriptName = requestedTasks[2].scriptName
    /\ requestedTasks[1].filterPaths = <<>>
    /\ requestedTasks[2].filterPaths = <<>>
    /\ requestedTasks[1].extraArgs = <<>>
    /\ requestedTasks[2].extraArgs = <<"--watch">>
    /\ ~ requestedTasks[1].force
    /\ requestedTasks[2].force
    /\ Cardinality({key \in Keys : key[1] = requestedTasks[1].scriptName}) = 2
    /\ \A key \in Keys :
          key[1] = requestedTasks[1].scriptName =>
              allTasks[key].extraArgs = <<>> /\ ~ allTasks[key].force

(* C37: in dependent mode, a node that a request created and that is the   *)
(* task of a local dependency of another node of its script has the extra  *)
(* arguments and the force flag of that node; when the request does not    *)
(* cover its workspace, these are the extra arguments and the force flag   *)
(* of the request.                                                         *)
C37_DependentRequest ==
    Constructed =>
        \A d \in Keys : \A key \in LocalDependencyKeys(d) :
            (/\ allTasks[d].taskConfig.execution = "dependent"
             /\ CreatingIndex(d) = CreatingIndex(key))
                => /\ allTasks[key].extraArgs = allTasks[d].extraArgs
                   /\ allTasks[key].force = allTasks[d].force
                   /\ (/\ key[1] = CreatingRequest(key).scriptName
                        /\ key[2] \notin RequestedDirs(CreatingRequest(key)))
                          => /\ allTasks[key].extraArgs = CreatingRequest(key).extraArgs
                             /\ allTasks[key].force = CreatingRequest(key).force

\* the dependent build of a alone is requested with --watch and force: the
\* build of b has both
C37_Witness ==
    /\ Constructed
    /\ Len(requestedTasks) = 1
    /\ requestedTasks[1] = [scriptName |-> "build", extraArgs |-> <<"--watch">>,
                             force |-> TRUE, filterPaths |-> <<"a">>]
    /\ config.scripts.build.execution = "dependent"
    /\ \E key \in Keys :
          /\ key = getTaskKey(join(RootDir, "b"), "build")
          /\ allTasks[key].extraArgs = <<"--watch">>
          /\ allTasks[key].force

----------------------------------------------------------------------------
(* C32: in a step in which the worker of a key returns with didSucceed and *)
(* didRunTask, the key's status becomes success:eager exactly when both    *)
(* hold, success:lazy exactly when didSucceed holds and didRunTask does    *)
(* not, and failure exactly when didSucceed does not hold; and the tick of *)
(* that step has read the status: its running snapshot is the running      *)
(* tasks without the key, its ready snapshot does not hold the key, and    *)
(* the tasks it starts depend on successful tasks only.                    *)
C32_FinalStatusThenTick ==
    [][\A taskKey \in AllKeys, didSucceed \in BOOLEAN, didRunTask \in BOOLEAN :
          RunTaskDone(taskKey, didSucceed, didRunTask) =>
              /\ allTasks'[taskKey].status = "success:eager" <=> (didSucceed /\ didRunTask)
              /\ allTasks'[taskKey].status = "success:lazy" <=> (didSucceed /\ ~ didRunTask)
              /\ allTasks'[taskKey].status = "failure" <=> ~ didSucceed
              /\ ToSet(lastTick'.runningTasks) = RunningKeys \ {taskKey}
              /\ ~ Includes(lastTick'.readyTasks, taskKey)
              /\ \A key \in ToSet(lastTick'.starts) :
                    \A dep \in DepSet(key) :
                        allTasks'[dep].status \in {"success:eager", "success:lazy"}]_vars

\* the three final statuses have been written, and the latest tick started a
\* task all of whose dependencies, one of them a cache hit, have returned
C32_Witness ==
    /\ pc = "running"
    /\ \E k1, k2, k3 \in Keys :
          /\ Status(k1) = "failure"
          /\ Status(k2) = "success:lazy"
          /\ Status(k3) = "success:eager"
    /\ \E key \in ToSet(lastTick.starts) :
          /\ Status(key) = "running"
          /\ \E dep \in DepSet(key) : Status(dep) = "success:lazy"

----------------------------------------------------------------------------
(* C34: no key is passed to runTask twice: the keys started so far are     *)
(* pairwise different, a key has at most one worker, it has one exactly    *)
(* while its status is running, and a pending task has not been started.   *)
C34_StartedAtMostOnce ==
    Constructed =>
        /\ \A i, j \in 1..Len(started) : i # j => started[i] # started[j]
        /\ \A key \in Keys :
              /\ workers[key] <= 1
              /\ workers[key] = 1 <=> Status(key) = "running"
              /\ Status(key) = "pending" => ~ Includes(started, key)
              /\ Status(key) # "pending" => Includes(started, key)

\* a finished run of four tasks at capacity 2, each started once
C34_Witness ==
    /\ resolved = 1
    /\ maxConcurrentTasks = 2
    /\ Cardinality(Keys) = 4
    /\ Len(started) = 4
    /\ \A key \in Keys : Terminal(key)
    /\ Len(lastTick.runningTasks) = 0

----------------------------------------------------------------------------
(* C35: once completion is signalled, no task is running, every task is    *)
(* terminal or is pending with a dependency that is failed or pending, and *)
(* every pending task has a failed task among its transitive dependencies. *)
C35_CompletionState ==
    resolved >= 1 =>
        /\ RunningKeys = {}
        /\ \A key \in Keys :
              \/ Terminal(key)
              \/ /\ Status(key) = "pending"
                 /\ \E dep \in DepSet(key) : Status(dep) \in {"failure", "pending"}
        /\ \A key \in Keys : Status(key) = "pending" => HasFailedTransitiveDep(key)

\* a finished run with a task that is pending behind a pending task only:
\* the failed task is a dependency of its dependency
C35_Witness ==
    /\ resolved = 1
    /\ \E key \in Keys :
          /\ Status(key) = "pending"
          /\ \A dep \in DepSet(key) : Status(dep) # "failure"
          /\ \E dep \in DepSet(key) : Status(dep) = "pending"
          /\ HasFailedTransitiveDep(key)

----------------------------------------------------------------------------
\* the step is the key's cacheOutputs call, up to its await, return or throw
CacheOutputsStep(key) == jobs[key].phase = "capture" /\ jobs'[key].phase # "capture"

\* the files on disk that the output globs of the key's task match
OutputFilesOf(key) ==
    SelectSeq(outputCandidates(allTasks[key]), LAMBDA file : file \in DOMAIN disk)

\* what an earlier run left at the key's output directory and manifest path
PreviousAt(key) == OutputCacheOf(previous, TaskOf(key))

(* C33: a cacheOutputs call leaves no output manifest at the task's path   *)
(* and nothing in the task's cache output directory but files of the       *)
(* current output list with their mtime on disk; with an empty output list *)
(* it leaves neither the directory nor the manifest and stores the empty   *)
(* list in task.outputFiles, and this is still so when the worker returns. *)
C33_RemovesPreviousCache ==
    /\ [][\A key \in Keys :
            CacheOutputsStep(key) =>
                /\ CacheAt(key)'.file = <<>>
                /\ \A files \in ToSet(CacheAt(key)'.dir) :
                      \A file \in DOMAIN files :
                          /\ Includes(OutputFilesOf(key), file)
                          /\ files[file] = disk[file]
                /\ Len(OutputFilesOf(key)) = 0 =>
                      /\ CacheAt(key)' = [dir |-> <<>>, file |-> <<>>]
                      /\ allTasks'[key].outputFiles = <<>>
                      /\ jobs'[key].phase = "return"
                      /\ jobs'[key].didSucceed]_vars
    /\ [](\A key \in DOMAIN jobs :
            (Len(OutputFilesOf(key)) = 0 /\ jobs[key].phase \in {"return", "done"}
                /\ jobs[key].didSucceed)
              => /\ CacheAt(key) = [dir |-> <<>>, file |-> <<>>]
                 /\ allTasks[key].outputFiles = <<>>)

\* build of workspace a, which has no outputs, has run over the cache of an
\* earlier run: the directory and the manifest are gone
C33_Witness ==
    /\ previous = StaleCache
    /\ \E key \in DOMAIN jobs :
          /\ key = <<"build", RootDir \o "/a">>
          /\ PreviousAt(key).dir # <<>>
          /\ PreviousAt(key).file # <<>>
          /\ allTasks[key].taskConfig.outputs = "none"
          /\ jobs[key].phase = "done"
          /\ Status(key) = "success:eager"
          /\ CacheAt(key) = [dir |-> <<>>, file |-> <<>>]
          /\ allTasks[key].outputFiles = <<>>

(* C38: when cacheOutputs has thrown on a path that starts with '..', what *)
(* an earlier run left at the task's output directory and manifest path is *)
(* gone, task.outputFiles is the output list, the directory holds the      *)
(* files that precede the offending path in the list and no other, the     *)
(* lines written for the manifest are theirs, and the manifest at the      *)
(* task's path is not the manifest of the list.                            *)
C38_FatalAfterRemoval ==
    \A key \in DOMAIN jobs :
        jobs[key].phase = "fatal" =>
            LET outputFiles == OutputFilesOf(key)
                bad == CHOOSE i \in 1..Len(outputFiles) :
                          /\ startsWithDotDot(outputFiles[i])
                          /\ \A j \in 1..(i - 1) : ~ startsWithDotDot(outputFiles[j])
                preceding == SubSeq(outputFiles, 1, bad - 1)
            IN  /\ \E i \in 1..Len(outputFiles) : startsWithDotDot(outputFiles[i])
                /\ allTasks[key].outputFiles = outputFiles
                /\ PreviousAt(key).dir # <<>> => CacheAt(key).dir # PreviousAt(key).dir
                /\ PreviousAt(key).file # <<>> => CacheAt(key).file # PreviousAt(key).file
                /\ CacheAt(key).dir = <<[file \in ToSet(preceding) |-> disk[file]]>>
                /\ jobs[key].stream
                      = [i \in 1..Len(preceding) |->
                            preceding[i] \o "\t" \o ToString(disk[preceding[i]]) \o "\n"]
                /\ CacheAt(key).file
                      # <<[i \in 1..Len(outputFiles) |->
                            outputFiles[i] \o "\t" \o ToString(disk[outputFiles[i]]) \o "\n"]>>

\* build of workspace a threw on its second output over the cache of an
\* earlier run: the first output is copied, the earlier files are gone
C38_Witness ==
    /\ pc = "aborted"
    /\ previous = StaleCache
    /\ \E key \in DOMAIN jobs :
          /\ key = <<"build", RootDir \o "/a">>
          /\ jobs[key].phase = "fatal"
          /\ allTasks[key].outputFiles = <<"a/dist/x.js", "../outside/e.js">>
          /\ CacheAt(key).dir = <<("a/dist/x.js" :> 1001)>>
          /\ CacheAt(key).file = <<>>

----------------------------------------------------------------------------
\* inherit got past its two checks: the lifecycle event names a task that
\* has a baseCommand
InheritProceeds ==
    /\ pc \in {"exited", "run"}
    /\ env["npm_lifecycle_event"] \in {"build", "test"}
    /\ config.scripts[env["npm_lifecycle_event"]].baseCommand \notin {Undefined, ""}

(* C39: with __LAZY_WORKFLOW__ equal to 'true' inherit never calls run,    *)
(* and when the task has a baseCommand it spawns it once, with the         *)
(* arguments after --, and exits with the child's status, or 1 when that   *)
(* is null; with any other value it spawns nothing, and when the task has  *)
(* a baseCommand it calls run once, for the lifecycle script, with the     *)
(* given options but the filter set to the current directory alone, and    *)
(* does not exit by itself.                                                *)
C39_InheritWorkflow ==
    pc \in {"exited", "run"} =>
        IF env["__LAZY_WORKFLOW__"] = "true"
        THEN /\ proc.ran = <<>>
             /\ pc = "exited"
             /\ InheritProceeds =>
                   /\ Len(proc.spawned) = 1
                   /\ proc.spawned[1].command
                         = config.scripts[env["npm_lifecycle_event"]].baseCommand
                   /\ proc.spawned[1].args
                         = (IF "--" \in DOMAIN proc.options THEN proc.options["--"] ELSE <<>>)
                   /\ proc.exitCode
                         = (IF proc.spawned[1].status = <<>> THEN <<1>> ELSE proc.spawned[1].status)
        ELSE /\ proc.spawned = <<>>
             /\ InheritProceeds =>
                   /\ pc = "run"
                   /\ proc.exitCode = <<>>
                   /\ Len(proc.ran) = 1
                   /\ proc.ran[1].taskName = env["npm_lifecycle_event"]
                   /\ proc.ran[1].options["filter"] = <<proc.cwd>>
                   /\ DOMAIN proc.ran[1].options = DOMAIN proc.options \cup {"filter"}
                   /\ \A name \in DOMAIN proc.options \ {"filter"} :
                         proc.ran[1].options[name] = proc.options[name]

\* in a lazy workflow, the build script of workspace a called
\* `lazy inherit -- --watch`; the child was killed: exit code 1, no run
C39_Witness ==
    /\ pc = "exited"
    /\ env["__LAZY_WORKFLOW__"] = "true"
    /\ env["npm_lifecycle_event"] = "build"
    /\ proc.cwd = join(RootDir, "a")
    /\ proc.spawned = <<[command |-> "tsc", args |-> <<"--watch">>, stdio |-> "inherit",
                         shell |-> TRUE, status |-> <<>>]>>
    /\ proc.exitCode = <<1>>
    /\ proc.ran = <<>>

====
